---- MODULE Spec2Model ----
(***************************************************************************)
(* Conversation orchestration and hybrid retrieval of CAI_Webex.           *)
(*                                                                         *)
(* Texts (queries, replies, summaries, names) are tuples of strings: a     *)
(* query is a tuple of one-character strings so that lower(), strip() and  *)
(* the regular expression of extract_name_node are computed, a generated   *)
(* text is a tuple of fragments.  The empty string is << >>.               *)
(*                                                                         *)
(* A graph state is a record whose DOMAIN is the set of keys that are set  *)
(* (a Python dict); state.get(k, d) is Get(state, k, d).                   *)
(***************************************************************************)
EXTENDS Integers, Naturals, Sequences, FiniteSets, TLC

VARIABLES
    store,      \* session id -> channel values of the latest checkpoint
    pc,         \* request slot -> node about to run ("idle" when no turn)
    st,         \* request slot -> channel values of the running graph
    trace,      \* request slot -> nodes executed so far in the turn
    sess,       \* request slot -> session id of the turn
    entry,      \* request slot -> handler that started the turn
    out,        \* request slot -> value the handler returned last
    turns,      \* number of turns started
    errors,     \* number of turns that ended in an error
    vs,         \* the hybrid_search call of the VectorSearch instance
    rag         \* the context assembly call of the RagEngine instance

\* the conversation service
conv == <<store, pc, st, trace, sess, entry, out, turns, errors>>

vars == <<store, pc, st, trace, sess, entry, out, turns, errors, vs, rag>>

----------------------------------------------------------------------------
(* Bounds *)

\* turns started in a run of the sequential specification
MaxTurns == 5

\* turns of a run that end in an error
MaxErrors == 1

\* turns started in a run of the concurrent specification
MaxConcTurns == 2

\* turns started in a run of the apigateway graph
MaxGwTurns == 1

\* VectorSearch(top_k_vector, top_k_sparse, top_k_rerank) of the model
top_k_vector == 2

top_k_sparse == 1

top_k_rerank == 2

\* request slots of the server (requests handled at the same time)
Procs == {1, 2}

\* session ids (Webex room ids)
Sessions == {"room1"}

----------------------------------------------------------------------------
(* Text helpers *)

UpperChars == <<"A","B","C","D","E","F","G","H","I","J","K","L","M",
                "N","O","P","Q","R","S","T","U","V","W","X","Y","Z">>

LowerChars == <<"a","b","c","d","e","f","g","h","i","j","k","l","m",
                "n","o","p","q","r","s","t","u","v","w","x","y","z">>

Range(s) == {s[i] : i \in DOMAIN s}

IsLetter(c) == c \in Range(UpperChars) \cup Range(LowerChars)

IsSpace(c) == c \in {" ", "\t", "\n"}

LowerChar(c) ==
    IF c \in Range(UpperChars)
    THEN LowerChars[CHOOSE i \in DOMAIN UpperChars : UpperChars[i] = c]
    ELSE c

\* str.lower()
Lower(s) == [i \in DOMAIN s |-> LowerChar(s[i])]

\* str.strip()
Strip(s) ==
    LET keep == {i \in DOMAIN s : ~IsSpace(s[i])}
    IN  IF keep = {} THEN << >>
        ELSE LET lo == CHOOSE i \in keep : \A j \in keep : i <= j
                 hi == CHOOSE i \in keep : \A j \in keep : j <= i
             IN  SubSeq(s, lo, hi)

\* w occurs in s starting at position i
OccursAt(w, s, i) ==
    /\ i >= 1
    /\ i + Len(w) - 1 <= Len(s)
    /\ SubSeq(s, i, i + Len(w) - 1) = w

\* Python's  w in s
Contains(s, w) == \E i \in 1..(Len(s) + 1) : OccursAt(w, s, i)

----------------------------------------------------------------------------
(* Inputs and outcomes of the external collaborators *)

QBye  == <<" ", "B", "y", "e">>
QTech == <<"w", "e", "b", "e", "x">>
QName == <<"I", " ", "a", "m", " ", "A", "l">>

\* query texts a request may carry
Queries == {QBye, QTech, QName}

QRecap == <<"r", "e", "c", "a", "p">>

\* a query of white space only
QBlank == <<" ", " ">>

\* query texts given to the apigateway graph
GwQueries == {QBye, QTech, QRecap, QBlank}

\* generate_response found no search results
NoDocuments == <<"No relevant documents found.">>

\* what retrieval_tool of the apigateway can return to tool_node: the
\* context of generate_response, its notice that nothing was found, or ""
\* when generate_response raised
RagContexts == {<<"docs">>, NoDocuments, << >>}

\* what the text generator can return for a reply
Replies == {<<"answer">>}

\* what the text generator can return for a summary
Summaries == {<<"S1">>}

\* what the web search of tool_node can return
WebContexts == {<< >>, <<"web">>}

----------------------------------------------------------------------------
(* Messages and the add_messages reducer *)

NoId == 0

HumanMessage(content) == [type |-> "human", content |-> content, id |-> NoId]

AIMessage(content) == [type |-> "ai", content |-> content, id |-> NoId]

RemoveMessage(id) == [type |-> "remove", content |-> << >>, id |-> id]

Ids(msgs) == {msgs[i].id : i \in DOMAIN msgs}

\* number of messages without an id among the first i of msgs
Unnamed(msgs, i) == Cardinality({j \in 1..i : msgs[j].id = NoId})

\* the largest id in use (0 when there is none)
MaxId(ids) == IF ids = {} THEN NoId ELSE CHOOSE i \in ids : \A j \in ids : j <= i

\* every message without an id gets a fresh one (uuid4): n+1, n+2, ... for
\* an n that no message at hand carries
AssignIds(msgs, n) ==
    [i \in DOMAIN msgs |->
        IF msgs[i].id = NoId
        THEN [msgs[i] EXCEPT !.id = n + Unnamed(msgs, i)]
        ELSE msgs[i]]

IndexOf(msgs, id) == CHOOSE i \in DOMAIN msgs : msgs[i].id = id

RECURSIVE MergeFrom(_, _, _, _)
\* the loop of add_messages over right[i..]: a message whose id is in merged
\* replaces it in place (a RemoveMessage marks it for removal), any other
\* message is appended
MergeFrom(merged, removed, right, i) ==
    IF i > Len(right)
    THEN SelectSeq(merged, LAMBDA m : m.id \notin removed)
    ELSE LET m == right[i]
         IN  IF m.id \in Ids(merged)
             THEN MergeFrom([merged EXCEPT ![IndexOf(merged, m.id)] = m],
                            IF m.type = "remove"
                            THEN removed \cup {m.id}
                            ELSE removed \ {m.id},
                            right, i + 1)
             ELSE MergeFrom(Append(merged, m), removed, right, i + 1)

\* add_messages raises ValueError: a RemoveMessage names an id that is absent
add_messages_raises(left, right) ==
    \E i \in DOMAIN right :
        /\ right[i].type = "remove"
        /\ right[i].id \notin Ids(left) \cup {right[j].id : j \in 1..(i - 1)}

add_messages(left, right) ==
    MergeFrom(left, {}, AssignIds(right, MaxId(Ids(left) \cup Ids(right))), 1)

----------------------------------------------------------------------------
(* Graph state: channels and their reducers *)

Get(state, k, d) == IF k \in DOMAIN state THEN state[k] ELSE d

\* {**state, k: v}
Put(state, k, v) ==
    [x \in DOMAIN state \cup {k} |-> IF x = k THEN v ELSE state[x]]

\* channel values of a thread that has no checkpoint
EmptyChannels == [messages |-> << >>]

\* the update a node returned (or the input of the graph) is written to the
\* channels: messages through add_messages, every other key overwrites
ApplyUpdate(state, update) ==
    [k \in DOMAIN state \cup DOMAIN update |->
        IF k \in DOMAIN update
        THEN IF k = "messages"
             THEN add_messages(Get(state, "messages", << >>), update[k])
             ELSE update[k]
        ELSE state[k]]


----------------------------------------------------------------------------
(* Tools: intent classification and the generator's failure texts *)

technical_keywords == {
    <<"w","e","b","e","x">>,
    <<"c","u","c","m">>,
    <<"c","i","s","c","o">>,
    <<"c","o","n","f","i","g","u","r","e">>,
    <<"e","r","r","o","r">>,
    <<"d","e","p","l","o","y","m","e","n","t">>,
    <<"c","a","l","l"," ","m","a","n","a","g","e","r">>,
    <<"t","r","o","u","b","l","e","s","h","o","o","t">>,
    <<"i","n","s","t","a","l","l","a","t","i","o","n">> }

\* the query is searched as it is written
is_technical_cased(query) ==
    \E word \in technical_keywords : Contains(query, word)

is_technical(query) ==
    \E word \in technical_keywords : Contains(Lower(query), word)

ApologyTechnical ==
    <<"Sorry, I encountered an error processing your technical query.">>

ApologySmalltalk == <<"Sorry, I'm having trouble chatting right now.">>

SummaryError == <<"Error generating summary.">>

\* what llm_with_context can return: the model's text, or the apology when
\* the call raised AttributeError, RuntimeError or ValueError
TechnicalAnswers == Replies \cup {ApologyTechnical}

\* what smalltalk_tool can return
SmalltalkAnswers == Replies \cup {ApologySmalltalk}

\* what create_summary can return
SummaryTexts == Summaries \cup {SummaryError}

----------------------------------------------------------------------------
(* Nodes of the conversation graph (coreservices): the dict each returns *)

start_node(state) ==
    [query     |-> state.query,
     messages  |-> Get(state, "messages", << >>),
     context   |-> << >>,
     summary   |-> Get(state, "summary", << >>),
     response  |-> << >>,
     user_name |-> Get(state, "user_name", << >>)]

NamePrefixes == { <<"i"," ","a","m">>,
                  <<"m","y"," ","n","a","m","e"," ","i","s">> }

\* first position at or after j that holds no white space
SkipSpaces(q, j) ==
    IF \E k \in j..Len(q) : ~IsSpace(q[k])
    THEN CHOOSE k \in j..Len(q) :
            /\ ~IsSpace(q[k])
            /\ \A l \in j..(k - 1) : IsSpace(q[l])
    ELSE Len(q) + 1

\* (?:i am|my name is)\s+([A-Za-z]+), ignoring case, matches at position i
NameMatchAt(q, i) ==
    \E w \in NamePrefixes :
        /\ OccursAt(w, Lower(q), i)
        /\ i + Len(w) <= Len(q)
        /\ IsSpace(q[i + Len(w)])
        /\ SkipSpaces(q, i + Len(w)) <= Len(q)
        /\ IsLetter(q[SkipSpaces(q, i + Len(w))])

NameMatches(q) == \E i \in DOMAIN q : NameMatchAt(q, i)

\* group(1) of the leftmost match
NameGroup(q) ==
    LET i == CHOOSE x \in DOMAIN q :
                 NameMatchAt(q, x) /\ \A y \in 1..(x - 1) : ~NameMatchAt(q, y)
        w == CHOOSE x \in NamePrefixes : OccursAt(x, Lower(q), i)
        b == SkipSpaces(q, i + Len(w))
        e == CHOOSE x \in b..Len(q) :
                 /\ \A y \in b..x : IsLetter(q[y])
                 /\ (x = Len(q) \/ ~IsLetter(q[x + 1]))
    IN  SubSeq(q, b, e)

\* the name is compared as it is written
extract_name_node_exact(state) ==
    IF /\ NameMatches(state.query)
       /\ Strip(NameGroup(state.query)) # Get(state, "user_name", << >>)
    THEN Put(state, "user_name", Strip(NameGroup(state.query)))
    ELSE state

extract_name_node(state) ==
    IF /\ NameMatches(state.query)
       /\ Lower(Strip(NameGroup(state.query)))
            # Lower(Get(state, "user_name", << >>))
    THEN Put(state, "user_name", Strip(NameGroup(state.query)))
    ELSE state

tool_node(state, context) ==
    [query    |-> state.query,
     context  |-> context,
     messages |-> state.messages,
     summary  |-> Get(state, "summary", << >>),
     response |-> Get(state, "response", << >>)]

\* the reply is appended before the user's message
RespondMessages_swapped(state, answer) ==
    Append(Append(state.messages, AIMessage(answer)), HumanMessage(state.query))

\* state["messages"] + [HumanMessage(query)], then append(AIMessage(answer))
RespondMessages(state, answer) ==
    Append(Append(state.messages, HumanMessage(state.query)), AIMessage(answer))

rag_invoke_node(state, answer_text) ==
    [response  |-> answer_text,
     messages  |-> RespondMessages(state, answer_text),
     query     |-> state.query,
     context   |-> state.context,
     summary   |-> Get(state, "summary", << >>),
     user_name |-> Get(state, "user_name", << >>)]

smalltalk_node(state, answer_text) ==
    [response  |-> answer_text,
     messages  |-> RespondMessages(state, answer_text),
     summary   |-> Get(state, "summary", << >>),
     query     |-> state.query,
     context   |-> Get(state, "context", << >>),
     user_name |-> Get(state, "user_name", << >>)]

\* state["messages"][:-1]: only the last message is kept
PrunedMessages_keep1(messages) ==
    [i \in 1..(IF Len(messages) > 1 THEN Len(messages) - 1 ELSE 0) |->
        RemoveMessage(messages[i].id)]

\* state["messages"][2:]: the first two messages are kept
PrunedMessages_keep_first(messages) ==
    [i \in 1..(IF Len(messages) > 2 THEN Len(messages) - 2 ELSE 0) |->
        RemoveMessage(messages[i + 2].id)]

\* [RemoveMessage(id=m.id) for m in state["messages"][:-2]]
PrunedMessages(messages) ==
    [i \in 1..(IF Len(messages) > 2 THEN Len(messages) - 2 ELSE 0) |->
        RemoveMessage(messages[i].id)]

\* the node returns no response
summarize_conversation_blank(state, summary_text) ==
    [summary   |-> summary_text,
     messages  |-> PrunedMessages(state.messages),
     query     |-> Get(state, "query", << >>),
     context   |-> Get(state, "context", << >>),
     response  |-> << >>,
     user_name |-> Get(state, "user_name", << >>)]

summarize_conversation(state, summary_text) ==
    [summary   |-> summary_text,
     messages  |-> PrunedMessages(state.messages),
     query     |-> Get(state, "query", << >>),
     context   |-> Get(state, "context", << >>),
     response  |-> Get(state, "response", << >>),
     user_name |-> Get(state, "user_name", << >>)]

route_by_intent(state) ==
    IF is_technical(state.query) THEN "tool" ELSE "smalltalk"

\* len(messages) > 6
SummarizeThreshold == 6

\* len(messages) >= 6
should_summarize_at_six(state) ==
    IF Len(state.messages) >= SummarizeThreshold
    THEN "summarize_conversation"
    ELSE "END"

\* len(messages) > 8
should_summarize_late(state) ==
    IF Len(state.messages) > SummarizeThreshold + 2
    THEN "summarize_conversation"
    ELSE "END"

should_summarize(state) ==
    IF Len(state.messages) > SummarizeThreshold
    THEN "summarize_conversation"
    ELSE "END"

connector_node(state) == << >>

----------------------------------------------------------------------------
(* Entry points (apigateway/api/app.py) and get_response *)

BotEmail == "localhelper@webex.bot"

\* authors of the Webex messages a webhook event may name
Emails == {"user@example.com", BotEmail}

\* the initial state invoke_model passes to get_response
InvokeState(query) ==
    [query     |-> query,
     context   |-> << >>,
     response  |-> << >>,
     messages  |-> << >>,
     summary   |-> << >>,
     user_name |-> << >>]

\* the initial state webhook passes to get_response
WebhookState(query) == [query |-> query]

NoReply == [status |-> "none", response |-> << >>]

\* graph.ainvoke(state, config): the channels of the thread's latest
\* checkpoint are loaded, the input is written to them as an update and the
\* graph starts at its first node
BeginTurn(p, s, input, handler) ==
    /\ pc[p] = "idle"
    /\ st' = [st EXCEPT ![p] = ApplyUpdate(store[s], input)]
    /\ store' = [store EXCEPT ![s] = ApplyUpdate(store[s], input)]
    /\ pc' = [pc EXCEPT ![p] = "start"]
    /\ trace' = [trace EXCEPT ![p] = << >>]
    /\ sess' = [sess EXCEPT ![p] = s]
    /\ entry' = [entry EXCEPT ![p] = handler]
    /\ out' = [out EXCEPT ![p] = NoReply]
    /\ turns' = turns + 1
    /\ UNCHANGED <<errors, vs, rag>>

\* one super-step: the node's update is written to the channels and the
\* checkpoint of the thread is saved
RunNode(p, update, next) ==
    /\ st' = [st EXCEPT ![p] = ApplyUpdate(st[p], update)]
    /\ store' = [store EXCEPT ![sess[p]] = ApplyUpdate(st[p], update)]
    /\ trace' = [trace EXCEPT ![p] = Append(trace[p], pc[p])]
    /\ pc' = [pc EXCEPT ![p] = next]
    /\ UNCHANGED <<sess, entry, out, turns, errors, vs, rag>>

invoke_model(p, bound) ==
    /\ turns < bound
    /\ \E s \in Sessions, q \in Queries :
          BeginTurn(p, s, InvokeState(q), "invoke")

webhook(p, bound) ==
    /\ pc[p] = "idle"
    /\ \E s \in Sessions, q \in Queries, email \in Emails :
          IF email = BotEmail
          THEN /\ out' = [out EXCEPT ![p] =
                            [status |-> "ignored", response |-> << >>]]
               /\ UNCHANGED <<store, pc, st, trace, sess, entry, turns,
                              errors, vs, rag>>
          ELSE /\ turns < bound
               /\ BeginTurn(p, s, WebhookState(q), "webhook")

start(p) ==
    /\ pc[p] = "start"
    /\ RunNode(p, start_node(st[p]), "extract_name")

extract_name(p) ==
    /\ pc[p] = "extract_name"
    /\ RunNode(p, extract_name_node(st[p]),
               route_by_intent(extract_name_node(st[p])))

\* Tools.retrieval_tool of coreservices: it reads self.rag_apiendpoint, which
\* __init__ never sets, catches the AttributeError and returns ""
retrieval_tool(query) == << >>

\* context = context_vectorsearch + context_web
tool(p) ==
    /\ pc[p] = "tool"
    /\ \E context_web \in WebContexts :
          RunNode(p, tool_node(st[p], retrieval_tool(st[p].query) \o context_web),
                  "rag_invoke_node")

rag_invoke(p) ==
    /\ pc[p] = "rag_invoke_node"
    /\ \E answer \in TechnicalAnswers :
          RunNode(p, rag_invoke_node(st[p], answer), "connector_node")

smalltalk(p) ==
    /\ pc[p] = "smalltalk"
    /\ \E answer \in SmalltalkAnswers :
          RunNode(p, smalltalk_node(st[p], answer), "connector_node")

connector(p) ==
    /\ pc[p] = "connector_node"
    /\ RunNode(p, connector_node(st[p]), should_summarize(st[p]))

summarize(p) ==
    /\ pc[p] = "summarize_conversation"
    /\ ~add_messages_raises(st[p].messages, PrunedMessages(st[p].messages))
    /\ \E text \in SummaryTexts :
          RunNode(p, summarize_conversation(st[p], text), "END")

\* the request is over: the slot keeps nothing of the run
Release(p) ==
    /\ pc' = [pc EXCEPT ![p] = "idle"]
    /\ st' = [st EXCEPT ![p] = EmptyChannels]
    /\ trace' = [trace EXCEPT ![p] = << >>]
    /\ entry' = [entry EXCEPT ![p] = "none"]
    /\ UNCHANGED <<store, sess, turns, vs, rag>>

\* get_response returns output_generated['response'] to the handler
get_response(p) ==
    /\ pc[p] = "END"
    /\ out' = [out EXCEPT ![p] =
                 [status |-> "ok", response |-> st[p].response]]
    /\ Release(p)
    /\ UNCHANGED errors

\* a node's external call raises an error the node does not catch: ainvoke
\* raises, get_response raises RuntimeError and the handler answers with an
\* error; the thread keeps the checkpoint of the last finished step
get_response_raises(p) ==
    /\ errors < MaxErrors
    /\ pc[p] \in {"tool", "rag_invoke_node", "smalltalk",
                  "summarize_conversation"}
    /\ out' = [out EXCEPT ![p] = [status |-> "error", response |-> << >>]]
    /\ Release(p)
    /\ errors' = errors + 1

----------------------------------------------------------------------------
(* Specifications *)

\* query texts given to get_embedded_query; the empty text is among them
EmbedTexts == {<< >>, QTech, QBye, QRecap}

\* vectors the embedder can return for a text
Vectors == {"v1", "v2"}

\* what generate_embedding returns for an empty text
None == "None"

\* the text is not a key of _embedding_cache
NotCached == "absent"

\* what one call of generate_embedding can do: return a vector or raise;
\* for an empty text it returns None without reaching the model
EmbedOutcomes(query) ==
    IF query = << >> THEN {None} ELSE Vectors \cup {"raises"}

\* the cache is not consulted: the embedder is called on every call
EmbeddedQuery_nocache(cache, query, outcome) ==
    IF outcome = "raises"
    THEN [cache |-> cache, returned |-> "ValueError", embed_calls |-> 1]
    ELSE IF outcome = None
    THEN [cache |-> [cache EXCEPT ![query] = None],
          returned |-> "ValueError", embed_calls |-> 1]
    ELSE [cache |-> [cache EXCEPT ![query] = outcome],
          returned |-> outcome, embed_calls |-> 1]

\* VectorSearch.get_embedded_query: the cache after the call, the value
\* returned (or the error raised) and the number of embedder calls made.
\* None is stored before len(None) raises inside the try block
EmbeddedQuery(cache, query, outcome) ==
    IF cache[query] # NotCached
    THEN [cache |-> cache, returned |-> cache[query], embed_calls |-> 0]
    ELSE IF outcome = "raises"
    THEN [cache |-> cache, returned |-> "ValueError", embed_calls |-> 1]
    ELSE IF outcome = None
    THEN [cache |-> [cache EXCEPT ![query] = None],
          returned |-> "ValueError", embed_calls |-> 1]
    ELSE [cache |-> [cache EXCEPT ![query] = outcome],
          returned |-> outcome, embed_calls |-> 1]

\* threads of the server that run searches at the same time
Threads == {1, 2, 3}

NoThread == 0

\* the names under which embedding_model.py is imported; each import name
\* is a module object of its own, with its own EmbeddingModel class, its
\* own _instance and its own lock
EmbeddingModules == {"core.embedding_model",
                     "datamanagement.core.embedding_model"}

\* VectorSearch.model_lock: from core.embedding_model import EmbeddingModel
VectorSearchLock == "core.embedding_model"

\* ChunkEmbedRank.model_lock:
\* from datamanagement.core.embedding_model import EmbeddingModel
EmbedderLock == "datamanagement.core.embedding_model"

\* a VectorSearch on which no call has been made
NoSearch ==
    [phase            |-> "idle",
     vector_results   |-> << >>,
     sparse_results   |-> << >>,
     combined_results |-> << >>,
     candidates       |-> << >>,
     predict_calls    |-> 0,
     error            |-> "none",
     reranked         |-> << >>,
     embedding_cache  |-> [q \in EmbedTexts |-> NotCached],
     last_query       |-> << >>,
     embed_calls      |-> 0,
     returned         |-> "none",
     holder           |-> [m \in EmbeddingModules |-> NoThread],
     at               |-> [t \in Threads |-> "idle"],
     instance         |-> [m \in EmbeddingModules |-> None],
     class_lock       |-> [m \in EmbeddingModules |-> NoThread],
     constructed      |-> [m \in EmbeddingModules |-> 0],
     via              |-> [t \in Threads |-> "none"],
     got              |-> [t \in Threads |-> None],
     scorer           |-> << >>,
     collection       |-> << >>,
     ingest           |-> [state    |-> "idle",
                           run      |-> 0,
                           at       |-> 0,
                           reached  |-> {},
                           inserted |-> << >>]]

\* a RagEngine on which no call has been made
NoContext ==
    [phase           |-> "idle",
     via             |-> "none",
     search_results  |-> << >>,
     top_chunks      |-> << >>,
     all_thread_chunks |-> << >>,
     thread_contexts |-> << >>,
     result          |-> << >>,
     query           |-> << >>,
     failure         |-> "none",
     raised          |-> "none"]

Init ==
    /\ vs = NoSearch
    /\ rag = NoContext
    /\ store = [s \in Sessions |-> EmptyChannels]
    /\ pc = [p \in Procs |-> "idle"]
    /\ st = [p \in Procs |-> EmptyChannels]
    /\ trace = [p \in Procs |-> << >>]
    /\ sess = [p \in Procs |-> CHOOSE s \in Sessions : TRUE]
    /\ entry = [p \in Procs |-> "none"]
    /\ out = [p \in Procs |-> NoReply]
    /\ turns = 0
    /\ errors = 0

\* the steps of a turn in request slot p
Node(p) ==
    \/ start(p)
    \/ extract_name(p)
    \/ tool(p)
    \/ rag_invoke(p)
    \/ smalltalk(p)
    \/ connector(p)
    \/ summarize(p)
    \/ get_response(p)

\* one request at a time, every external call returns
Next ==
    \/ invoke_model(1, MaxTurns)
    \/ webhook(1, MaxTurns)
    \/ Node(1)

Spec == Init /\ [][Next]_vars

\* the channels of a session after one webhook turn on the smalltalk branch
AfterSmalltalkTurn(state, query, answer) ==
    LET loaded  == ApplyUpdate(state, WebhookState(query))
        started == ApplyUpdate(loaded, start_node(loaded))
        named   == ApplyUpdate(started, extract_name_node(started))
    IN  ApplyUpdate(named, smalltalk_node(named, answer))

\* a session that three earlier turns left with 6 messages
StoredHistory ==
    AfterSmalltalkTurn(
        AfterSmalltalkTurn(
            AfterSmalltalkTurn(EmptyChannels, QName, <<"answer">>),
            QName, <<"answer">>),
        QName, <<"answer">>)

\* the server starts on a store that is empty or holds earlier sessions
InitConc ==
    /\ vs = NoSearch
    /\ rag = NoContext
    /\ store \in [Sessions -> {EmptyChannels, StoredHistory}]
    /\ pc = [p \in Procs |-> "idle"]
    /\ st = [p \in Procs |-> EmptyChannels]
    /\ trace = [p \in Procs |-> << >>]
    /\ sess = [p \in Procs |-> CHOOSE s \in Sessions : TRUE]
    /\ entry = [p \in Procs |-> "none"]
    /\ out = [p \in Procs |-> NoReply]
    /\ turns = 0
    /\ errors = 0

\* requests of both slots interleave at every await, external calls may fail
NextConc ==
    \E p \in Procs :
        \/ invoke_model(p, MaxConcTurns)
        \/ webhook(p, MaxConcTurns)
        \/ Node(p)
        \/ get_response_raises(p)

SpecConc == InitConc /\ [][NextConc]_vars

----------------------------------------------------------------------------
(* The conversation graph of apigateway/services/langgraphtool.py.  Its      *)
(* extract_name_node, llm_node and smalltalk_node return what the nodes of  *)
(* coreservices return.  The default recursion limit of the graph library   *)
(* is not part of the model.                                                *)

gw_start_node(state) ==
    [query     |-> state.query,
     messages  |-> Get(state, "messages", << >>),
     context   |-> << >>,
     summary   |-> << >>,
     response  |-> << >>,
     user_name |-> Get(state, "user_name", << >>)]

\* state["messages"][-2:] if len(state["messages"]) > 2 else state["messages"]
LastTwo(messages) ==
    IF Len(messages) > 2
    THEN SubSeq(messages, Len(messages) - 1, Len(messages))
    ELSE messages

gw_summarize_conversation(state, summary_text) ==
    [summary  |-> summary_text,
     messages |-> LastTwo(state.messages),
     query    |-> Get(state, "query", << >>),
     context  |-> Get(state, "context", << >>),
     response |-> Get(state, "response", << >>)]

stop_words == { <<"b","y","e">>,
                <<"g","o","o","d","b","y","e">>,
                <<"s","t","o","p">>,
                <<"e","x","i","t">>,
                <<"t","h","a","n","k","s">> }

summary_keywords == {
    <<"s","u","m","m","a","r","y">>,
    <<"s","u","m","m","a","r","i","z","e">>,
    <<"g","i","v","e"," ","m","e"," ","a"," ","s","u","m","m","a","r","y">>,
    <<"w","h","a","t","'","s"," ","t","h","e"," ","s","u","m","m","a","r","y">>,
    <<"t","e","l","l"," ","m","e"," ","t","h","e"," ","s","u","m","m","a","r","y">>,
    <<"p","r","o","v","i","d","e"," ","s","u","m","m","a","r","y">>,
    <<"r","e","c","a","p">> }

\* len(messages) > 20
MessageLimit == 20

should_continue_no_limit(state) ==
    LET query == Strip(Lower(Get(state, "query", << >>)))
    IN  IF query \in stop_words
        THEN "END"
        ELSE IF \E keyword \in summary_keywords : Contains(query, keyword)
             THEN "summarize_conversation"
             ELSE "smalltalk"

should_continue(state) ==
    LET query == Strip(Lower(Get(state, "query", << >>)))
    IN  IF query \in stop_words \/ Len(state.messages) > MessageLimit
        THEN "END"
        ELSE IF \E keyword \in summary_keywords : Contains(query, keyword)
             THEN "summarize_conversation"
             ELSE "smalltalk"

passthrough_node(state) == state

gw_start(p) ==
    /\ pc[p] = "start"
    /\ RunNode(p, gw_start_node(st[p]), "extract_name")

gw_tool(p) ==
    /\ pc[p] = "tool"
    /\ \E context \in RagContexts :
          RunNode(p, tool_node(st[p], context), "llm")

gw_llm(p) ==
    /\ pc[p] = "llm"
    /\ \E answer \in TechnicalAnswers :
          RunNode(p, rag_invoke_node(st[p], answer), "should_continue")

\* the edge smalltalk -> END adds no task: should_continue runs next
gw_smalltalk(p) ==
    /\ pc[p] = "smalltalk"
    /\ \E answer \in SmalltalkAnswers :
          RunNode(p, smalltalk_node(st[p], answer), "should_continue")

gw_should_continue(p) ==
    /\ pc[p] = "should_continue"
    /\ RunNode(p, passthrough_node(st[p]), should_continue(st[p]))

gw_summarize(p) ==
    /\ pc[p] = "summarize_conversation"
    /\ \E text \in SummaryTexts :
          RunNode(p, gw_summarize_conversation(st[p], text), "smalltalk")

\* conversation_graph.ainvoke({"query": ...}, config) on the compiled graph
gw_invoke(p) ==
    /\ turns < MaxGwTurns
    /\ \E s \in Sessions, q \in GwQueries :
          BeginTurn(p, s, WebhookState(q), "webhook")

NextGw ==
    \/ gw_invoke(1)
    \/ gw_start(1)
    \/ extract_name(1)
    \/ gw_tool(1)
    \/ gw_llm(1)
    \/ gw_smalltalk(1)
    \/ gw_should_continue(1)
    \/ gw_summarize(1)
    \/ get_response(1)

SpecGw == Init /\ [][NextGw]_vars

----------------------------------------------------------------------------
(* Claims about the conversation state machine *)

\* the stop condition of the Decide gate: the query, trimmed and lowercased,
\* is a stop word, or there are more than 20 messages
StopCondition(state) ==
    \/ Strip(Lower(state.query)) \in
         { <<"b","y","e">>, <<"g","o","o","d","b","y","e">>,
           <<"s","t","o","p">>, <<"e","x","i","t">>,
           <<"t","h","a","n","k","s">> }
    \/ Len(state.messages) > 20

\* the last two entries of a list (the whole list when it has fewer)
Last2(messages) ==
    [i \in 1..(IF Len(messages) < 2 THEN Len(messages) ELSE 2) |->
        messages[Len(messages) - (IF Len(messages) < 2 THEN Len(messages) ELSE 2) + i]]

IsPrefix(a, b) == Len(a) <= Len(b) /\ SubSeq(b, 1, Len(a)) = a

Occurrences(seq, x) == Cardinality({i \in DOMAIN seq : seq[i] = x})

\* C1: a turn whose stop condition holds (stop-word query, or more than 20
\* messages) never enters Summarize: from the Decide gate it goes to End,
\* whatever the message count is.
C1_StopGoesToEnd ==
    \A p \in Procs :
        pc[p] = "summarize_conversation" => ~StopCondition(st[p])

\* C2: at the Decide gate of the coreservices graph, when no stop condition
\* applies, the turn goes to Summarize if and only if there are more than 6
\* messages, and to End otherwise.
C2_SummarizeIffMoreThanSix ==
    [][\A p \in Procs :
          (pc[p] = "connector_node" /\ pc'[p] # "connector_node"
              /\ ~StopCondition(st[p]))
          => /\ (pc'[p] = "summarize_conversation")
                    <=> (Len(st[p].messages) > 6)
             /\ (pc'[p] = "END") <=> (Len(st[p].messages) <= 6)]_vars

\* C2 witness: a turn without stop condition stands at Summarize with the 8
\* messages it had at the gate.
C2_Witness ==
    /\ pc[1] = "summarize_conversation"
    /\ ~StopCondition(st[1])
    /\ Len(st[1].messages) = 8
    /\ trace[1][Len(trace[1])] = "connector_node"

\* C3: after the Summarize node has run, the messages of the session (in
\* the running state and in the saved checkpoint) are exactly the last two
\* entries of the list before Summarize, in the same order.
C3_PrunedToLastTwo ==
    [][\A p \in Procs :
          (pc[p] = "summarize_conversation" /\ pc'[p] # pc[p]
              /\ pc'[p] # "idle")
          => /\ st'[p].messages = Last2(st[p].messages)
             /\ store'[sess[p]].messages = Last2(st[p].messages)]_vars

\* C4: in every turn exactly one response branch runs, exactly once, no
\* node is visited twice and Summarize runs at most once.
C4_OnePathPerTurn ==
    \A p \in Procs :
        /\ \A i, j \in DOMAIN trace[p] : i # j => trace[p][i] # trace[p][j]
        /\ Occurrences(trace[p], "summarize_conversation") <= 1
        /\ pc[p] = "END" =>
              Cardinality({i \in DOMAIN trace[p] :
                  trace[p][i] \in {"rag_invoke_node", "llm", "smalltalk"}}) = 1

\* C5: the Respond step (rag_invoke_node or smalltalk_node) leaves the
\* stored messages equal to the messages before followed by the user message
\* with the turn's query and the assistant message with the reply, and sets
\* response to that reply.
C5_RespondAppendsPair ==
    [][\A p \in Procs :
          (pc[p] \in {"rag_invoke_node", "smalltalk"}
              /\ pc'[p] = "connector_node")
          => LET old == st[p].messages
                 new == st'[p].messages
             IN  /\ Len(new) = Len(old) + 2
                 /\ SubSeq(new, 1, Len(old)) = old
                 /\ new[Len(old) + 1].type = "human"
                 /\ new[Len(old) + 1].content = st[p].query
                 /\ new[Len(old) + 2].type = "ai"
                 /\ new[Len(old) + 2].content = st'[p].response
                 /\ st'[p].response \in
                        Replies \cup {ApologyTechnical, ApologySmalltalk}
                 /\ store'[sess[p]].messages = new]_vars

\* C5 witness: Respond has just run on a session that already had messages.
C5_Witness ==
    /\ pc[1] = "connector_node"
    /\ Len(st[1].messages) = 4
    /\ st[1].messages[3].content = st[1].query
    /\ st[1].messages[4].content = st[1].response
    /\ st[1].response = <<"answer">>

\* C6: every step of a turn leaves the messages of the session unchanged,
\* extends them at the end, or is the Summarize step truncating them to
\* their last two; a turn starts from the stored messages and every step
\* stores the messages it leaves.
C6_MessagesGrowOrPrune ==
    [][\A p \in Procs :
          (pc'[p] # "idle" /\ <<pc[p], st[p]>> # <<pc'[p], st'[p]>>)
          => LET old == IF pc[p] = "idle"
                        THEN store[sess'[p]].messages
                        ELSE st[p].messages
                 new == st'[p].messages
             IN  /\ \/ new = old
                    \/ IsPrefix(old, new)
                    \/ /\ pc[p] = "summarize_conversation"
                       /\ new = Last2(old)
                 /\ store'[sess'[p]].messages = new]_vars

\* C6 witness: Summarize has pruned a list of 8 messages to 2.
C6_Witness ==
    /\ pc[1] = "END"
    /\ trace[1][Len(trace[1])] = "summarize_conversation"
    /\ Len(store[sess[1]].messages) = 2

\* C7: a non-empty summary of a session is never reset to empty, and only
\* the Summarize step changes the summary.
C7_SummaryNeverCleared ==
    [][\A s \in Sessions :
          LET old == Get(store[s], "summary", << >>)
              new == Get(store'[s], "summary", << >>)
          IN  /\ old # << >> => new # << >>
              /\ new # old =>
                    \E p \in Procs : /\ sess[p] = s
                                     /\ pc[p] = "summarize_conversation"]_vars

\* C8: no two turns of the same session overlap.
C8_NoOverlap ==
    \A p, q \in Procs :
        (p # q /\ pc[p] # "idle" /\ pc[q] # "idle") => sess[p] # sess[q]

\* C9: a turn starts with the messages and the user_name the session's last
\* turn ended with.
C9_Continuity ==
    [][\A p \in Procs :
          (pc[p] = "idle" /\ pc'[p] = "start")
          => /\ st'[p].messages = store[sess'[p]].messages
             /\ Get(st'[p], "user_name", << >>)
                    = Get(store[sess'[p]], "user_name", << >>)]_vars

----------------------------------------------------------------------------
(* Hybrid retrieval (datamanagement/db/vector_query.py) *)

\* a document without thread_url: res.get("thread_url") is falsy
NoUrl == ""

\* documents of the Chunk Store
Docs == { [thread_url |-> "t1", response_chunk |-> "a"],
          [thread_url |-> "t1", response_chunk |-> "b"],
          [thread_url |-> "t2", response_chunk |-> "c"],
          [thread_url |-> "t3", response_chunk |-> "d"],
          [thread_url |-> NoUrl, response_chunk |-> "e"] }

\* vectorSearchScore / textScore values
Scores == {1, 2}

\* values the cross-encoder gives a (query, chunk) pair
RerankScores == {1, 2}

Hit(doc, score) ==
    [thread_url     |-> doc.thread_url,
     response_chunk |-> doc.response_chunk,
     score          |-> score]

Hits == {Hit(doc, score) : doc \in Docs, score \in Scores}

\* what a query of the store can return: at most k documents, each once,
\* by descending score
ResultLists(k) ==
    {r \in UNION {[1..n -> Hits] : n \in 0..k} :
        /\ \A i, j \in DOMAIN r :
              i < j => /\ r[i].response_chunk # r[j].response_chunk
                       /\ r[i].score >= r[j].score}

get_score(res) ==
    IF "rerank_score" \in DOMAIN res THEN res.rerank_score
    ELSE IF "score" \in DOMAIN res THEN res.score
    ELSE 0

RECURSIVE BestPerThreadByChunk(_, _, _)
\* the dictionary is keyed by response_chunk instead of thread_url
BestPerThreadByChunk(results, i, best) ==
    IF i > Len(results) THEN best
    ELSE LET res == results[i]
             at  == {j \in DOMAIN best :
                        best[j].response_chunk = res.response_chunk}
         IN  IF Get(res, "thread_url", NoUrl) = NoUrl
             THEN BestPerThreadByChunk(results, i + 1, best)
             ELSE IF at = {}
             THEN BestPerThreadByChunk(results, i + 1, Append(best, res))
             ELSE IF get_score(best[CHOOSE j \in at : TRUE]) < get_score(res)
             THEN BestPerThreadByChunk(results, i + 1,
                      [best EXCEPT ![CHOOSE j \in at : TRUE] = res])
             ELSE BestPerThreadByChunk(results, i + 1, best)

RECURSIVE BestPerThreadFirst(_, _, _)
\* the first result seen of a thread is kept, whatever the later scores are
BestPerThreadFirst(results, i, best) ==
    IF i > Len(results) THEN best
    ELSE LET res == results[i]
             at  == {j \in DOMAIN best :
                        best[j].thread_url = Get(res, "thread_url", NoUrl)}
         IN  IF Get(res, "thread_url", NoUrl) = NoUrl \/ at # {}
             THEN BestPerThreadFirst(results, i + 1, best)
             ELSE BestPerThreadFirst(results, i + 1, Append(best, res))

RECURSIVE BestPerThread(_, _, _)
\* the loop over vector_results + sparse_results from position i; best holds
\* the values of best_per_thread in insertion order
BestPerThread(results, i, best) ==
    IF i > Len(results) THEN best
    ELSE LET res == results[i]
             at  == {j \in DOMAIN best :
                        best[j].thread_url = Get(res, "thread_url", NoUrl)}
         IN  IF Get(res, "thread_url", NoUrl) = NoUrl
             THEN BestPerThread(results, i + 1, best)
             ELSE IF at = {}
             THEN BestPerThread(results, i + 1, Append(best, res))
             ELSE IF get_score(best[CHOOSE j \in at : TRUE]) < get_score(res)
             THEN BestPerThread(results, i + 1,
                      [best EXCEPT ![CHOOSE j \in at : TRUE] = res])
             ELSE BestPerThread(results, i + 1, best)

RECURSIVE InsertAsc(_, _)
\* x goes behind every element whose rerank_score is not greater
InsertAsc(sorted, x) ==
    IF sorted = << >> THEN <<x>>
    ELSE IF Head(sorted).rerank_score <= x.rerank_score
         THEN <<Head(sorted)>> \o InsertAsc(Tail(sorted), x)
         ELSE <<x>> \o sorted

RECURSIVE InsertDesc(_, _)
RECURSIVE InsertDescFront(_, _)
\* x goes before the elements whose rerank_score is equal
InsertDescFront(sorted, x) ==
    IF sorted = << >> THEN <<x>>
    ELSE IF Head(sorted).rerank_score > x.rerank_score
         THEN <<Head(sorted)>> \o InsertDescFront(Tail(sorted), x)
         ELSE <<x>> \o sorted

\* x goes behind every element whose rerank_score is not smaller
InsertDesc(sorted, x) ==
    IF sorted = << >> THEN <<x>>
    ELSE IF Head(sorted).rerank_score >= x.rerank_score
         THEN <<Head(sorted)>> \o InsertDesc(Tail(sorted), x)
         ELSE <<x>> \o sorted

RECURSIVE SortedDesc(_, _)
\* sorted(results, key=rerank_score, reverse=True) of results[1..n]: stable
SortedDesc(results, n) ==
    IF n = 0 THEN << >>
    ELSE InsertDesc(SortedDesc(results, n - 1), results[n])

\* one candidate fewer than top_k_rerank is returned
rerank_results_short(results, scores) ==
    IF results = << >> THEN << >>
    ELSE LET scored == [i \in DOMAIN results |->
                           [thread_url     |-> results[i].thread_url,
                            response_chunk |-> results[i].response_chunk,
                            score          |-> results[i].score,
                            rerank_score   |-> scores[i]]]
             ranked == SortedDesc(scored, Len(scored))
         IN  SubSeq(ranked, 1,
                    IF Len(ranked) < top_k_rerank - 1 THEN Len(ranked)
                    ELSE top_k_rerank - 1)

\* rerank_results when model.predict returned scores
rerank_results(results, scores) ==
    IF results = << >> THEN << >>
    ELSE LET scored == [i \in DOMAIN results |->
                           [thread_url     |-> results[i].thread_url,
                            response_chunk |-> results[i].response_chunk,
                            score          |-> results[i].score,
                            rerank_score   |-> scores[i]]]
             ranked == SortedDesc(scored, Len(scored))
         IN  SubSeq(ranked, 1,
                    IF Len(ranked) < top_k_rerank THEN Len(ranked)
                    ELSE top_k_rerank)

\* similarity_search returns the results of the dense query
similarity_search ==
    /\ vs.phase = "idle"
    /\ \E results \in ResultLists(top_k_vector), v \in Vectors :
          LET call == EmbeddedQuery(vs.embedding_cache, QTech, v)
          IN  vs' = [vs EXCEPT !.phase = "dense",
                               !.vector_results = results,
                               !.embedding_cache = call.cache,
                               !.last_query = QTech,
                               !.embed_calls = call.embed_calls,
                               !.returned = call.returned]
    /\ UNCHANGED <<conv, rag>>

\* hybrid_search: the sparse query returns
sparse_search ==
    /\ vs.phase = "dense"
    /\ \E results \in ResultLists(top_k_sparse) :
          vs' = [vs EXCEPT !.phase = "sparse", !.sparse_results = results]
    /\ UNCHANGED <<conv, rag>>

\* the scorer is called once for a candidate list that is not empty
PredictCalls(results) == IF results = << >> THEN 0 ELSE 1

\* hybrid_search: the results are merged per thread, reranked and returned
hybrid_search ==
    /\ vs.phase = "sparse"
    /\ LET combined ==
              BestPerThread(vs.vector_results \o vs.sparse_results, 1, << >>)
       IN  \E scores \in [DOMAIN combined -> RerankScores] :
              vs' = [vs EXCEPT !.phase = "returned",
                               !.combined_results = combined,
                               !.candidates = combined,
                               !.predict_calls = PredictCalls(combined),
                               !.reranked = rerank_results(combined, scores)]
    /\ UNCHANGED <<conv, rag>>

\* rerank_results called on the results of similarity_search, as
\* RagEngine.rerank_results and the module's usage example do
rerank_results_call ==
    /\ vs.phase = "dense"
    /\ \E scores \in [DOMAIN vs.vector_results -> RerankScores] :
          vs' = [vs EXCEPT
                   !.phase = "reranked",
                   !.candidates = vs.vector_results,
                   !.predict_calls = PredictCalls(vs.vector_results),
                   !.reranked = rerank_results(vs.vector_results, scores)]
    /\ UNCHANGED <<conv, rag>>

\* the candidate list rerank_results is called with: the dense results when
\* called on them, the merged results inside hybrid_search
RerankInput ==
    IF vs.phase = "dense" THEN vs.vector_results
    ELSE BestPerThread(vs.vector_results \o vs.sparse_results, 1, << >>)

\* model.predict raises: rerank_results raises RuntimeError; an empty
\* candidate list is returned before the scorer is reached
rerank_results_raises ==
    /\ vs.phase \in {"dense", "sparse"}
    /\ RerankInput # << >>
    /\ vs' = [vs EXCEPT !.phase = "failed",
                        !.candidates = RerankInput,
                        !.predict_calls = 1,
                        !.error = "Reranking failed"]
    /\ UNCHANGED <<conv, rag>>

\* a query of the store (or the embedding of the query) raises:
\* similarity_search / sparse_search raise RuntimeError and so does
\* hybrid_search
hybrid_search_raises ==
    /\ vs.phase \in {"idle", "dense"}
    /\ vs' = [vs EXCEPT !.phase = "failed",
                        !.error = IF vs.phase = "idle"
                                  THEN "Vector search failed"
                                  ELSE "Sparse (full-text) search failed"]
    /\ UNCHANGED <<conv, rag>>

NextSearch ==
    \/ similarity_search
    \/ sparse_search
    \/ hybrid_search
    \/ rerank_results_call
    \/ rerank_results_raises
    \/ hybrid_search_raises

SpecSearch == Init /\ [][NextSearch]_vars

\* C10: the list hybrid_search returns holds no two results with the same
\* thread_url, whatever the dense and the sparse results are.
C10_OnePerThread ==
    vs.phase = "returned" =>
        \A i, j \in DOMAIN vs.reranked :
            i # j => vs.reranked[i].thread_url # vs.reranked[j].thread_url

\* C10 witness: hybrid_search returned two threads, one of which both the
\* dense and the sparse query had found, with different chunks.
C10_Witness ==
    /\ vs.phase = "returned"
    /\ \E i \in DOMAIN vs.vector_results, j \in DOMAIN vs.sparse_results :
          /\ vs.vector_results[i].thread_url = "t1"
          /\ vs.sparse_results[j].thread_url = "t1"
          /\ vs.vector_results[i].response_chunk
                # vs.sparse_results[j].response_chunk
    /\ Len(vs.reranked) = 2

\* C11: for every thread found by the dense or the sparse query, the merge
\* of hybrid_search keeps exactly one candidate of that thread, it is one of
\* the results of the two queries, and no result of the thread has a
\* strictly higher score.
C11_BestScorePerThread ==
    vs.phase = "returned" =>
        LET results == vs.vector_results \o vs.sparse_results
        IN  \A i \in DOMAIN results :
                results[i].thread_url # NoUrl =>
                    /\ Cardinality({k \in DOMAIN vs.combined_results :
                            vs.combined_results[k].thread_url
                                = results[i].thread_url}) = 1
                    /\ \A k \in DOMAIN vs.combined_results :
                            vs.combined_results[k].thread_url
                                = results[i].thread_url
                            => /\ vs.combined_results[k] \in Range(results)
                               /\ vs.combined_results[k].score
                                     >= results[i].score

\* C11 witness: the sparse query found a thread with a higher score than
\* the dense query did, and the merge kept the sparse result.
C11_Witness ==
    /\ vs.phase = "returned"
    /\ \E i \in DOMAIN vs.vector_results, j \in DOMAIN vs.sparse_results :
          /\ vs.vector_results[i].thread_url = "t1"
          /\ vs.sparse_results[j].thread_url = "t1"
          /\ vs.vector_results[i].score < vs.sparse_results[j].score
          /\ vs.sparse_results[j] \in Range(vs.combined_results)

\* threads (truthy thread_url values) of a result list
ThreadsOf(results) ==
    {results[i].thread_url : i \in DOMAIN results} \ {NoUrl}

\* the dense and the sparse query succeeded and found no common thread
NoSharedThread ==
    /\ vs.phase = "returned"
    /\ ThreadsOf(vs.vector_results) \cap ThreadsOf(vs.sparse_results) = {}

\* C12 as stated: when the two queries share no thread, every thread of
\* either result list has a candidate in the list hybrid_search returns,
\* for any number of distinct threads.
C12_NoThreadDropped ==
    NoSharedThread =>
        ThreadsOf(vs.vector_results) \cup ThreadsOf(vs.sparse_results)
            \subseteq ThreadsOf(vs.reranked)

\* C12 amended: when the two queries share no thread, every thread of
\* either result list has a candidate in the merged list given to the
\* reranker; the returned list holds min(number of threads, top_k_rerank)
\* of them, so no thread is dropped as long as there are at most
\* top_k_rerank distinct threads.
C12_ThreadsKeptUpToTopK ==
    NoSharedThread =>
        LET threads == ThreadsOf(vs.vector_results)
                           \cup ThreadsOf(vs.sparse_results)
            n == Cardinality(threads)
        IN  /\ ThreadsOf(vs.combined_results) = threads
            /\ Len(vs.combined_results) = n
            /\ ThreadsOf(vs.reranked) \subseteq threads
            /\ Len(vs.reranked) = IF n < top_k_rerank THEN n ELSE top_k_rerank
            /\ n <= top_k_rerank => ThreadsOf(vs.reranked) = threads

\* C12 witness: three distinct threads, none shared, and the returned list
\* holds top_k_rerank of them.
C12_Witness ==
    /\ NoSharedThread
    /\ Cardinality(ThreadsOf(vs.vector_results)
                      \cup ThreadsOf(vs.sparse_results)) = 3
    /\ Len(vs.combined_results) = 3
    /\ Len(vs.reranked) = top_k_rerank

\* a reranked result without the score the reranker added
Candidate(res) ==
    [thread_url     |-> res.thread_url,
     response_chunk |-> res.response_chunk,
     score          |-> res.score]

\* C13: rerank_results returns a list sorted by rerank_score in
\* non-increasing order, of length at most top_k_rerank, whose elements are
\* input candidates, each taken once; for an empty candidate list it
\* returns an empty list, does not raise and does not call the scorer.
C13_RerankSortedCapped ==
    /\ vs.phase \in {"returned", "reranked"} =>
          /\ \A i, j \in DOMAIN vs.reranked :
                i < j => vs.reranked[i].rerank_score
                            >= vs.reranked[j].rerank_score
          /\ Len(vs.reranked) <= top_k_rerank
          /\ Len(vs.reranked) <= Len(vs.candidates)
          /\ \A i \in DOMAIN vs.reranked :
                Candidate(vs.reranked[i]) \in Range(vs.candidates)
          /\ \A i, j \in DOMAIN vs.reranked :
                i # j => Candidate(vs.reranked[i]) # Candidate(vs.reranked[j])
          /\ vs.candidates = << >> =>
                vs.reranked = << >> /\ vs.predict_calls = 0
    /\ vs.error = "Reranking failed" => vs.candidates # << >>

\* C13 witness: rerank_results was given more than top_k_rerank candidates
\* and put the last one first.
C13_Witness ==
    /\ vs.phase = "returned"
    /\ Len(vs.candidates) > top_k_rerank
    /\ Len(vs.reranked) = top_k_rerank
    /\ Candidate(vs.reranked[1]) = vs.candidates[Len(vs.candidates)]
    /\ vs.reranked[1].rerank_score > vs.reranked[2].rerank_score

\* C13 witness, empty input: rerank_results returned an empty list for an
\* empty candidate list.
C13_WitnessEmpty ==
    /\ vs.phase = "reranked"
    /\ vs.candidates = << >>
    /\ vs.reranked = << >>

----------------------------------------------------------------------------
(* Context assembly (apigateway/services/rag_engine.py) *)

Digits == {"0", "1", "2", "3", "4", "5", "6", "7", "8", "9"}

\* [a-zA-Z0-9]
IsAlnum(c) == IsLetter(c) \/ c \in Digits

\* \w on the characters the texts are written with
IsWordChar(c) == IsAlnum(c) \/ c = "_"

WordAt(s, i) == i \in DOMAIN s /\ IsWordChar(s[i])

\* \b between positions i - 1 and i of s
Boundary(s, i) == WordAt(s, i - 1) # WordAt(s, i)

\* re.search(r"\b(w)\b", s) for a literal w
MatchesWord(s, w) ==
    \E i \in DOMAIN s :
        OccursAt(w, s, i) /\ Boundary(s, i) /\ Boundary(s, i + Len(w))

\* the alternatives of the first junk pattern that are written with ASCII
\* characters (sign[ -]?in and home[ /] spelled out); the other alternatives
\* hold letters that no chunk text below contains
LanguageWords == {
    <<"m","a","g","y","a","r">>,
    <<"p","o","l","s","k","i">>,
    <<"n","o","r","s","k">>,
    <<"h","r","v","a","t","s","k","i">>,
    <<"s","r","p","s","k","i">>,
    <<"s","u","o","m","i">>,
    <<"s","i","g","n"," ","i","n">>,
    <<"s","i","g","n","-","i","n">>,
    <<"s","i","g","n","i","n">>,
    <<"h","o","m","e"," ">>,
    <<"h","o","m","e","/">> }

\* the alternatives of the third junk pattern
BoilerplateWords == {
    <<"s","i","t","e"," ","m","a","p">>,
    <<"l","a","n","g","u","a","g","e",":">>,
    <<"p","r","i","v","a","c","y">>,
    <<"c","o","p","y","r","i","g","h","t">>,
    <<"a","r","t","i","c","l","e"," ","a","d","d"," ","u","s","e","r","s">>,
    <<"m","a","n","a","g","e"," ","e","x","t","e","r","n","a","l"," ","u",
      "s","e","r","s">> }

MinSymbolRun == 10

\* the second junk pattern, ^(?:[^\w\s]{10,})$ : the whole text (up to a
\* final newline) is ten or more characters that are neither word
\* characters nor blanks
OnlySymbols(text) ==
    \E n \in {Len(text), Len(text) - 1} :
        /\ n >= MinSymbolRun
        /\ n = Len(text) \/ text[Len(text)] = "\n"
        /\ \A i \in 1..n : ~IsWordChar(text[i]) /\ ~IsSpace(text[i])

MinChunkLength == 30

\* len(re.sub(r"[a-zA-Z0-9]", "", text))
NonAlnumCount(text) == Cardinality({i \in DOMAIN text : ~IsAlnum(text[i])})

\* the length test accepts texts one character shorter
is_junk_chunk_short(text) ==
    \/ text = << >>
    \/ Len(Strip(text)) < MinChunkLength - 1
    \/ 2 * NonAlnumCount(text) > Len(text)
    \/ \E w \in LanguageWords : MatchesWord(Lower(text), w)
    \/ OnlySymbols(text)
    \/ \E w \in BoilerplateWords : MatchesWord(Lower(text), w)

\* RagEngine.is_junk_chunk; n / max(1, len) > 0.5 is 2 * n > len
is_junk_chunk(text) ==
    \/ text = << >>
    \/ Len(Strip(text)) < MinChunkLength
    \/ 2 * NonAlnumCount(text) > Len(text)
    \/ \E w \in LanguageWords : MatchesWord(Lower(text), w)
    \/ OnlySymbols(text)
    \/ \E w \in BoilerplateWords : MatchesWord(Lower(text), w)

AUTHORITATIVE_DOMAINS == <<
    <<"h","e","l","p",".","w","e","b","e","x",".","c","o","m">>,
    <<"s","u","p","p","o","r","t",".","c","i","s","c","o",".","c","o","m">>,
    <<"w","w","w",".","w","e","b","e","x",".","c","o","m">> >>

\* any(domain in url for domain in AUTHORITATIVE_DOMAINS)
is_authoritative_url(url) ==
    \E d \in DOMAIN AUTHORITATIVE_DOMAINS :
        Contains(url, AUTHORITATIVE_DOMAINS[d])

\* 30 characters
ChunkAddUser ==
    <<"O","p","e","n"," ","C","o","n","t","r","o","l"," ","H","u","b"," ",
      "a","n","d"," ","a","d","d"," ","u","s","e","r",".">>

ChunkRestart ==
    <<"R","e","s","t","a","r","t"," ","t","h","e"," ","W","e","b","e","x",
      " ","a","p","p",","," ","t","h","e","n"," ","r","e","t","r","y",".">>

\* 'privacy' inside a longer word
ChunkFlag ==
    <<"S","e","t"," ","t","h","e"," ","p","r","i","v","a","c","y","m","o",
      "d","e"," ","f","l","a","g"," ","i","n"," ","c","o","n","f","i","g">>

\* 16 of 32 characters are not alphanumeric
ChunkHalf ==
    <<"a"," ","b"," ","c"," ","d"," ","e"," ","f"," ","g"," ","h"," ","i",
      " ","j"," ","k"," ","l"," ","m"," ","n"," ","o"," ","p",".">>

\* 29 characters between the blanks
ChunkPadded ==
    <<" ","O","p","e","n"," ","C","o","n","t","r","o","l"," ","H","u","b",
      " ","a","n","d"," ","a","d","d"," ","u","s","e","r"," ">>

\* 28 of 34 characters are not alphanumeric
ChunkSymbols ==
    <<"=","="," ","-","-"," ","=","="," ","a","b","c"," ","=","="," ","-",
      "-"," ","=","="," ","d","e","f"," ","=","="," ","-","-"," ","=","=">>

\* boilerplate word
ChunkFooter ==
    <<"P","r","i","v","a","c","y"," ","s","t","a","t","e","m","e","n","t",
      " ","a","n","d"," ","S","i","t","e"," ","T","e","r","m","s">>

\* boilerplate word
ChunkSignIn ==
    <<"P","l","e","a","s","e"," ","S","i","g","n","-","I","n"," ","t","o",
      " ","r","e","a","d"," ","t","h","e"," ","a","r","t","i","c","l","e">>

UrlHelp ==
    <<"h","e","l","p",".","w","e","b","e","x",".","c","o","m","/","a">>

UrlSupport ==
    <<"s","u","p","p","o","r","t",".","c","i","s","c","o",".","c","o","m",
      "/","b">>

UrlForum ==
    <<"c","o","m","m","u","n","i","t","y",".","c","i","s","c","o",".","c",
      "o","m","/","c">>

UrlBlog ==
    <<"w","e","b","e","x",".","c","o","m","/","d">>

\* the Chunk Store: the response chunks of each thread in natural order;
\* ingestion stores one document per (query chunk, response chunk) pair, so
\* the two response chunks of a thread with three query chunks are stored
\* three times each
ThreadChunks(url) ==
    IF url = UrlHelp
    THEN <<ChunkFooter, ChunkAddUser, ChunkFooter, ChunkAddUser,
           ChunkFooter, ChunkAddUser>>
    ELSE IF url = UrlSupport THEN <<ChunkHalf, ChunkFlag, ChunkRestart>>
    ELSE IF url = UrlForum THEN <<ChunkSymbols, ChunkSignIn>>
    ELSE IF url = UrlBlog THEN <<ChunkRestart, ChunkPadded>>
    ELSE << >>

ThreadUrls == {UrlHelp, UrlSupport, UrlForum, UrlBlog}

\* the documents of the store that the dense and the sparse query return
RagDocs ==
    { [thread_url |-> UrlHelp,    response_chunk |-> ChunkFooter],
      [thread_url |-> UrlHelp,    response_chunk |-> ChunkAddUser],
      [thread_url |-> UrlSupport, response_chunk |-> ChunkHalf],
      [thread_url |-> UrlSupport, response_chunk |-> ChunkFlag],
      [thread_url |-> UrlForum,   response_chunk |-> ChunkSymbols],
      [thread_url |-> UrlBlog,    response_chunk |-> ChunkRestart] }

RagHits == {Hit(doc, 1) : doc \in RagDocs}

\* at most k documents of the store, each once
RagResultLists(k) ==
    {r \in UNION {[1..n -> RagHits] : n \in 0..k} :
        \A i, j \in DOMAIN r : i < j => r[i] # r[j]}

max_chunks_per_thread == 2

BackfillLimit == 5

\* seq[:n]
Take(seq, n) == SubSeq(seq, 1, IF Len(seq) < n THEN Len(seq) ELSE n)

RECURSIVE Join(_, _)
\* sep.join(texts)
Join(texts, sep) ==
    IF texts = << >> THEN << >>
    ELSE IF Len(texts) = 1 THEN texts[1]
    ELSE texts[1] \o sep \o Join(Tail(texts), sep)

Blank == <<"\n", "\n">>

\* the orders in which iterating over the set S can yield its elements
SetOrders(S) ==
    {o \in [1..Cardinality(S) -> S] : \A i, j \in DOMAIN o : i # j => o[i] # o[j]}

\* thread_urls
ThreadUrlSet(reranked_chunks) ==
    {reranked_chunks[i].thread_url : i \in DOMAIN reranked_chunks}

\* the threads that are not authoritative come first
SortedThreadUrls_reversed(order) ==
    SelectSeq(order, LAMBDA url : ~is_authoritative_url(url))
        \o SelectSeq(order, LAMBDA url : is_authoritative_url(url))

\* sorted(thread_urls, key=self.is_authoritative_url, reverse=True), the
\* set being iterated in the given order: the sort is stable
SortedThreadUrls(order) ==
    SelectSeq(order, LAMBDA url : is_authoritative_url(url))
        \o SelectSeq(order, LAMBDA url : ~is_authoritative_url(url))

\* reranked_map[url]
RerankedMap(reranked_chunks, url) ==
    LET of == SelectSeq(reranked_chunks, LAMBDA c : c.thread_url = url)
    IN  [i \in DOMAIN of |-> of[i].response_chunk]

\* collection.find({"thread_url": url}).limit(5) for every thread
FetchAll(urls) == [url \in urls |-> Take(ThreadChunks(url), BackfillLimit)]

\* the dictionary left by a PyMongoError
FetchFailed == << >>

\* the chunk texts of the store
ChunkTexts ==
    UNION {Range(ThreadChunks(url)) : url \in ThreadUrls}

\* is_junk_chunk on the chunk texts of the store, evaluated once per text
JunkChunks == {c \in ChunkTexts : is_junk_chunk(c)}

NotJunk(chunks) == SelectSeq(chunks, LAMBDA c : c \notin JunkChunks)

\* one chunk more than max_chunks_per_thread is kept
Capped_plus1(filtered, cap) == Take(filtered, cap + 1)

\* filtered[:max_chunks_per_thread]
Capped(filtered, cap) == Take(filtered, cap)

\* the chunks of one thread that make its context text
SelectedChunks(reranked_chunks, url, cap, all_thread_chunks) ==
    LET filtered   == NotJunk(RerankedMap(reranked_chunks, url))
        fetched    == IF url \in DOMAIN all_thread_chunks
                      THEN all_thread_chunks[url] ELSE << >>
        additional == SelectSeq(fetched,
                          LAMBDA c : c \notin JunkChunks
                                     /\ c \notin Range(filtered))
    IN  Capped(IF Len(filtered) < cap THEN filtered \o additional
               ELSE filtered, cap)

\* RagEngine.get_full_threads: the entries of thread_contexts in insertion
\* order
get_full_threads(reranked_chunks, cap, order, all_thread_chunks) ==
    LET sorted_thread_urls == SortedThreadUrls(order)
    IN  [k \in DOMAIN sorted_thread_urls |->
            LET url    == sorted_thread_urls[k]
                chunks == SelectedChunks(reranked_chunks, url, cap,
                                         all_thread_chunks)
            IN  [url |-> url, chunks |-> chunks, text |-> Join(chunks, Blank)]]

\* RagEngine.build_context
build_context(top_chunks) ==
    Join([i \in DOMAIN top_chunks |-> top_chunks[i].response_chunk], Blank)

EmptyQuery == <<"Query cannot be empty.">>

\* queries for which generate_response goes on to search:  not query  is
\* false for every text that is not empty
RagQueries == {QTech, QBlank}

\* what a query of the Chunk Store can raise (pymongo.errors)
StoreFailures == {"ServerSelectionTimeoutError", "ConnectionFailure",
                  "OperationFailure"}

\* the messages of the except clauses of generate_response
DatabaseMessage(failure) ==
    IF failure = "ServerSelectionTimeoutError"
    THEN <<"Unable to connect to the database server. Please try again in a few moments.">>
    ELSE IF failure = "ConnectionFailure"
    THEN <<"Database connection failed. Please check your network or try again later.">>
    ELSE <<"An error occurred while querying the database. The query might be invalid or the index is missing.">>

\* generate_response("") returns at once
rag_empty_query ==
    /\ rag.phase = "idle"
    /\ rag' = [rag EXCEPT !.phase = "done",
                          !.via = "generate_response",
                          !.query = << >>,
                          !.result = EmptyQuery]
    /\ UNCHANGED <<conv, vs>>

\* generate_response: the dense or the sparse query of hybrid_search raises;
\* similarity_search / sparse_search re-raise it as RuntimeError, which no
\* except clause of generate_response names
rag_search_raises ==
    /\ rag.phase = "idle"
    /\ \E query \in RagQueries, failure \in StoreFailures :
          rag' = [rag EXCEPT !.phase = "done",
                             !.via = "generate_response",
                             !.query = query,
                             !.failure = failure,
                             !.raised = "RuntimeError"]
    /\ UNCHANGED <<conv, vs>>

\* generate_response: perform_hybrid_search returns; an empty result ends
\* the call with a message
rag_perform_hybrid_search ==
    /\ rag.phase = "idle"
    /\ \E query \in RagQueries,
          dense \in RagResultLists(top_k_vector),
          sparse \in RagResultLists(top_k_sparse) :
          LET combined == BestPerThread(dense \o sparse, 1, << >>)
          IN  \E scores \in [DOMAIN combined -> RerankScores] :
                 LET search_results == rerank_results(combined, scores)
                 IN  rag' = IF search_results = << >>
                            THEN [rag EXCEPT !.phase = "done",
                                             !.via = "generate_response",
                                             !.query = query,
                                             !.result = NoDocuments]
                            ELSE [rag EXCEPT
                                    !.phase = "searched",
                                    !.via = "generate_response",
                                    !.query = query,
                                    !.search_results = search_results]
    /\ UNCHANGED <<conv, vs>>

\* RagEngine.perform_search returns the results of the dense query to a
\* caller that goes on with rerank_results and get_full_threads
rag_perform_search ==
    /\ rag.phase = "idle"
    /\ \E dense \in RagResultLists(top_k_vector) :
          rag' = [rag EXCEPT !.phase = "searched",
                             !.via = "perform_search",
                             !.search_results = dense]
    /\ UNCHANGED <<conv, vs>>

\* RagEngine.rerank_results
rag_rerank_results ==
    /\ rag.phase = "searched"
    /\ \E scores \in [DOMAIN rag.search_results -> RerankScores] :
          rag' = [rag EXCEPT
                    !.phase = "reranked",
                    !.top_chunks = rerank_results(rag.search_results, scores)]
    /\ UNCHANGED <<conv, vs>>

\* RagEngine.get_full_threads(top_chunks, max_chunks_per_thread=2): the set
\* of thread URLs is iterated in some order, the fetch of the threads'
\* chunks succeeds or raises PyMongoError
rag_get_full_threads ==
    /\ rag.phase = "reranked"
    /\ \E order \in SetOrders(ThreadUrlSet(rag.top_chunks)),
          all_thread_chunks \in
              {FetchAll(ThreadUrlSet(rag.top_chunks)), FetchFailed} :
          rag' = [rag EXCEPT
                    !.phase = "threads",
                    !.all_thread_chunks = all_thread_chunks,
                    !.thread_contexts =
                        get_full_threads(
                            rag.top_chunks, max_chunks_per_thread, order,
                            all_thread_chunks)]
    /\ UNCHANGED <<conv, vs>>

\* the texts of thread_contexts.values() that are not blank
UsableTexts(thread_contexts) ==
    LET usable == SelectSeq(thread_contexts,
                            LAMBDA e : Strip(e.text) # << >>)
    IN  [i \in DOMAIN usable |-> usable[i].text]

\* generate_response: the context is built and returned
rag_generate_response ==
    /\ rag.phase = "threads"
    /\ rag.via = "generate_response"
    /\ rag' = [rag EXCEPT
                 !.phase = "done",
                 !.result = IF rag.thread_contexts # << >>
                            THEN Join(UsableTexts(rag.thread_contexts), Blank)
                            ELSE build_context(rag.top_chunks)]
    /\ UNCHANGED <<conv, vs>>

NextRag ==
    \/ rag_empty_query
    \/ rag_search_raises
    \/ rag_perform_hybrid_search
    \/ rag_perform_search
    \/ rag_rerank_results
    \/ rag_get_full_threads
    \/ rag_generate_response

SpecRag == Init /\ [][NextRag]_vars

----------------------------------------------------------------------------
(* Claims about context assembly *)

\* get_full_threads has returned
Assembled == rag.phase \in {"threads", "done"}

\* generate_response has returned a context
ContextReturned ==
    /\ rag.phase = "done"
    /\ rag.via = "generate_response"
    /\ rag.raised = "none"
    /\ rag.result \notin {NoDocuments, EmptyQuery}

\* the entries of thread_contexts whose text is not blank
UsableEntries ==
    SelectSeq(rag.thread_contexts, LAMBDA e : Strip(e.text) # << >>)

RECURSIVE Offset(_, _)
\* where the k-th text starts in the texts joined by a blank line
Offset(texts, k) ==
    IF k = 1 THEN 1
    ELSE Offset(texts, k - 1) + Len(texts[k - 1]) + 2

\* the first position of a chunk of the thread in a chunk list
FirstPos(chunks, url) ==
    CHOOSE i \in DOMAIN chunks :
        /\ chunks[i].thread_url = url
        /\ \A j \in DOMAIN chunks : chunks[j].thread_url = url => i <= j

\* C14: in the context string generate_response returns, the text of every
\* thread whose URL contains an authoritative domain starts before the
\* text of every thread whose URL contains none.
C14_AuthoritativeFirst ==
    ContextReturned =>
        LET texts == [i \in DOMAIN UsableEntries |-> UsableEntries[i].text]
        IN  /\ \A i \in DOMAIN texts :
                  SubSeq(rag.result, Offset(texts, i),
                         Offset(texts, i) + Len(texts[i]) - 1) = texts[i]
            /\ texts # << >> =>
                  Len(rag.result) = Offset(texts, Len(texts))
                                      + Len(texts[Len(texts)]) - 1
            /\ \A i, j \in DOMAIN texts :
                  (/\ \E d \in DOMAIN AUTHORITATIVE_DOMAINS :
                         Contains(UsableEntries[i].url,
                                  AUTHORITATIVE_DOMAINS[d])
                   /\ ~\E d \in DOMAIN AUTHORITATIVE_DOMAINS :
                         Contains(UsableEntries[j].url,
                                  AUTHORITATIVE_DOMAINS[d]))
                  => Offset(texts, i) < Offset(texts, j)

\* C14 witness: the top-ranked chunk belongs to a thread that is not
\* authoritative, the second one to an authoritative thread, and the
\* returned context holds both texts.
C14_Witness ==
    /\ ContextReturned
    /\ Len(rag.top_chunks) = 2
    /\ rag.top_chunks[1].thread_url = UrlBlog
    /\ rag.top_chunks[2].thread_url = UrlHelp
    /\ Len(UsableEntries) = 2
    /\ UsableEntries[1].url = UrlHelp

\* C15: among threads of equal authority get_full_threads orders the
\* entries by the position of each thread's first chunk in the reranked
\* input list.
C15_TiesKeepArrivalOrder ==
    Assembled =>
        \A i, j \in DOMAIN rag.thread_contexts :
            (/\ i < j
             /\ is_authoritative_url(rag.thread_contexts[i].url)
                   = is_authoritative_url(rag.thread_contexts[j].url))
            => FirstPos(rag.top_chunks, rag.thread_contexts[i].url)
                 < FirstPos(rag.top_chunks, rag.thread_contexts[j].url)

\* the chunks of a thread in the reranked list that are not junk, in order
KeptReranked(url) ==
    LET of   == SelectSeq(rag.top_chunks, LAMBDA c : c.thread_url = url)
        kept == SelectSeq(of, LAMBDA c : ~(c.response_chunk \in JunkChunks))
    IN  [i \in DOMAIN kept |-> kept[i].response_chunk]

\* the chunks fetched from the store for a thread
Fetched(url) ==
    IF url \in DOMAIN rag.all_thread_chunks
    THEN rag.all_thread_chunks[url] ELSE << >>

\* a is b with some elements left out
IsSubseq(a, b) ==
    \E f \in [DOMAIN a -> DOMAIN b] :
        /\ \A i, j \in DOMAIN a : i < j => f[i] < f[j]
        /\ \A i \in DOMAIN a : a[i] = b[f[i]]

\* the chunks of an entry that were backfilled: those behind the reranked
\* chunks of its thread
Backfilled(e) ==
    SubSeq(e.chunks, Len(KeptReranked(e.url)) + 1, Len(e.chunks))

\* C16: get_full_threads produces at most one entry per thread URL; the
\* text of an entry is the concatenation of at most max_chunks_per_thread
\* chunks, the reranked chunks of the thread first, in their order, then
\* chunks fetched from the store, in their order.
C16_OneCappedEntryPerThread ==
    Assembled =>
        /\ \A i, j \in DOMAIN rag.thread_contexts :
              i # j => rag.thread_contexts[i].url # rag.thread_contexts[j].url
        /\ \A i \in DOMAIN rag.thread_contexts :
              LET e == rag.thread_contexts[i]
                  n == IF Len(KeptReranked(e.url)) < Len(e.chunks)
                       THEN Len(KeptReranked(e.url)) ELSE Len(e.chunks)
              IN  /\ Len(e.chunks) <= max_chunks_per_thread
                  /\ e.text = Join(e.chunks, Blank)
                  /\ SubSeq(e.chunks, 1, n) = SubSeq(KeptReranked(e.url), 1, n)
                  /\ IsSubseq(SubSeq(e.chunks, n + 1, Len(e.chunks)),
                              Fetched(e.url))

\* C16 witness: a thread with one reranked chunk and two more usable chunks
\* in the store got an entry of max_chunks_per_thread chunks.
C16_Witness ==
    /\ Assembled
    /\ \E i \in DOMAIN rag.thread_contexts :
          /\ rag.thread_contexts[i].url = UrlSupport
          /\ rag.thread_contexts[i].chunks = <<ChunkHalf, ChunkFlag>>
          /\ ChunkRestart \in Range(Fetched(UrlSupport))

\* the junk rule in words: stripped length below 30, or more than half of
\* the characters not alphanumeric, or a boilerplate pattern matches
JunkByRule(text) ==
    \/ Len(Strip(text)) < 30
    \/ 2 * Cardinality({i \in DOMAIN text : ~IsAlnum(text[i])}) > Len(text)
    \/ \E w \in LanguageWords \cup BoilerplateWords :
          MatchesWord(Lower(text), w)
    \/ OnlySymbols(text)

\* the chunk texts of the store that are junk by the rule
RuleJunkChunks == {c \in ChunkTexts : JunkByRule(c)}

\* is_junk_chunk agrees with the rule on every chunk text of the store
JunkRuleAgrees ==
    \A c \in ChunkTexts : is_junk_chunk(c) <=> JunkByRule(c)

\* C17: is_junk_chunk returns true exactly when the stripped length is
\* below 30, or more than half of the characters are not alphanumeric, or
\* a boilerplate pattern matches; and no chunk classified as junk is part
\* of a thread text of get_full_threads, whether it was reranked or
\* fetched by the backfill.
C17_NoJunkInContext ==
    /\ JunkRuleAgrees
    /\ Assembled =>
          \A i \in DOMAIN rag.thread_contexts :
              /\ \A k \in DOMAIN rag.thread_contexts[i].chunks :
                    rag.thread_contexts[i].chunks[k] \notin RuleJunkChunks
              /\ rag.thread_contexts[i].text
                    = Join(rag.thread_contexts[i].chunks, Blank)

\* C17 witness: the reranked chunk of a thread is junk, the store holds
\* junk and usable chunks of the thread, and the thread text is not empty.
C17_Witness ==
    /\ Assembled
    /\ \E k \in DOMAIN rag.top_chunks :
          /\ rag.top_chunks[k].thread_url = UrlHelp
          /\ rag.top_chunks[k].response_chunk = ChunkFooter
    /\ ChunkFooter \in Range(Fetched(UrlHelp))
    /\ \E i \in DOMAIN rag.thread_contexts :
          /\ rag.thread_contexts[i].url = UrlHelp
          /\ rag.thread_contexts[i].chunks # << >>

\* C18: at most 5 chunks are fetched per thread; a thread that has
\* max_chunks_per_thread usable reranked chunks gets no backfilled chunk;
\* a backfilled chunk comes from the fetch, is not junk and equals no
\* chunk selected for the thread before it.
C18_Backfill ==
    Assembled =>
        \A i \in DOMAIN rag.thread_contexts :
            LET e == rag.thread_contexts[i]
                n == Len(KeptReranked(e.url))
            IN  /\ Len(Fetched(e.url)) <= 5
                /\ n >= max_chunks_per_thread => Len(e.chunks) <= n
                /\ \A k \in DOMAIN e.chunks :
                      k > n => /\ e.chunks[k] \in Range(Fetched(e.url))
                               /\ e.chunks[k] \notin JunkChunks
                               /\ \A m \in 1..(k - 1) :
                                     e.chunks[m] # e.chunks[k]

\* C19: when there is at least one top-ranked chunk and the text of every
\* thread is empty, generate_response returns build_context(top_chunks),
\* the chunks joined without filtering.
C19_FlatFallback ==
    (/\ rag.phase = "done"
     /\ rag.via = "generate_response"
     /\ rag.top_chunks # << >>
     /\ \A i \in DOMAIN rag.thread_contexts :
           Strip(rag.thread_contexts[i].text) = << >>)
    => rag.result = build_context(rag.top_chunks)

----------------------------------------------------------------------------
(* Embedding cache of VectorSearch *)

\* one call of get_embedded_query on the VectorSearch instance
get_embedded_query(query) ==
    /\ vs.phase = "idle"
    /\ \E outcome \in EmbedOutcomes(query) :
          LET call == EmbeddedQuery(vs.embedding_cache, query, outcome)
          IN  vs' = [vs EXCEPT !.embedding_cache = call.cache,
                               !.last_query = query,
                               !.embed_calls = call.embed_calls,
                               !.returned = call.returned]
    /\ UNCHANGED <<conv, rag>>

NextEmbed == \E query \in EmbedTexts : get_embedded_query(query)

SpecEmbed == Init /\ [][NextEmbed]_vars

\* C20: once get_embedded_query has returned a vector for a text, every
\* later call with that text returns the same vector without calling the
\* embedder, and no call changes or removes a cached entry.
C20_CachedEmbedding ==
    [][\A query \in EmbedTexts :
          vs.embedding_cache[query] \in Vectors =>
              /\ vs'.embedding_cache[query] = vs.embedding_cache[query]
              /\ (vs'.last_query = query /\ vs' # vs) =>
                    /\ vs'.returned = vs.embedding_cache[query]
                    /\ vs'.embed_calls = 0]_vars

\* C20 witness: a call returned the cached vector of a text without
\* calling the embedder, while another text holds a different vector.
C20_Witness ==
    /\ vs.last_query = QTech
    /\ vs.embed_calls = 0
    /\ vs.returned = "v1"
    /\ vs.embedding_cache[QTech] = "v1"
    /\ vs.embedding_cache[QBye] = "v2"

----------------------------------------------------------------------------
(* Threads calling the models behind VectorSearch.  vs.at[t] is where      *)
(* thread t stands in hybrid_search, vs.holder[m] the thread that holds    *)
(* the lock of the EmbeddingModel instance of module m.                    *)

\* with lock: the thread blocks until the lock is free
Acquire(t, lock, from, to) ==
    /\ vs.at[t] = from
    /\ vs.holder[lock] = NoThread
    /\ vs' = [vs EXCEPT !.holder[lock] = t, !.at[t] = to]
    /\ UNCHANGED <<conv, rag>>

\* the with block is left
ReleaseLock(t, lock, from, to) ==
    /\ vs.at[t] = from
    /\ vs.holder[lock] = t
    /\ vs' = [vs EXCEPT !.holder[lock] = NoThread, !.at[t] = to]
    /\ UNCHANGED <<conv, rag>>

Goto(t, from, to) ==
    /\ vs.at[t] = from
    /\ vs' = [vs EXCEPT !.at[t] = to]
    /\ UNCHANGED <<conv, rag>>

\* hybrid_search is called; the query is not in the cache and
\* generate_embedding reaches  with self.model_lock
thread_generate_embedding(t) == Goto(t, "idle", "generate_embedding")

\* hybrid_search is called and the embedding of the query is cached
thread_cached_embedding(t) == Goto(t, "idle", "searching")

\* self.model.encode(chunk) runs inside the with block
thread_encode(t) == Acquire(t, EmbedderLock, "generate_embedding", "encode")

thread_encode_done(t) == ReleaseLock(t, EmbedderLock, "encode", "searching")

\* the store was queried; rerank_results reaches  with self.model_lock
thread_rerank_results(t) == Goto(t, "searching", "rerank_results")

\* rerank_results got no results and returns without a model call
thread_rerank_nothing(t) == Goto(t, "searching", "idle")

\* self.model.predict(pairs) runs inside the with block
thread_predict(t) == Acquire(t, VectorSearchLock, "rerank_results", "predict")

thread_predict_done(t) == ReleaseLock(t, VectorSearchLock, "predict", "idle")

NextLock ==
    \E t \in Threads :
        \/ thread_generate_embedding(t)
        \/ thread_cached_embedding(t)
        \/ thread_encode(t)
        \/ thread_encode_done(t)
        \/ thread_rerank_results(t)
        \/ thread_rerank_nothing(t)
        \/ thread_predict(t)
        \/ thread_predict_done(t)

SpecLock == Init /\ [][NextLock]_vars

\* C21: at most one thread at a time is inside a call of the models,
\* counting model.encode of generate_embedding and model.predict of
\* rerank_results alike.
C21_ModelCallsSerialized ==
    Cardinality({t \in Threads : vs.at[t] \in {"encode", "predict"}}) <= 1

----------------------------------------------------------------------------
(* Claims about failures *)

Apologies == {ApologyTechnical, ApologySmalltalk}

\* C22: a Respond step in which the generator fails still completes: the
\* turn goes on to the Decide gate with response set to an apology, the
\* user message and the apology appended to messages and the state saved;
\* get_response raises nothing.
C22_GenerationFailureApologises ==
    [][\A p \in Procs :
          (pc[p] \in {"rag_invoke_node", "smalltalk"} /\ pc'[p] # pc[p])
          => /\ pc'[p] = "connector_node"
             /\ out'[p].status # "error"
             /\ st'[p].response \notin Replies =>
                   /\ st'[p].response \in Apologies
                   /\ st'[p].messages =
                          Append(Append(st[p].messages,
                                        [HumanMessage(st[p].query) EXCEPT
                                            !.id = st'[p].messages[
                                                Len(st[p].messages) + 1].id]),
                                 [AIMessage(st'[p].response) EXCEPT
                                     !.id = st'[p].messages[
                                         Len(st[p].messages) + 2].id])
                   /\ store'[sess[p]] = st'[p]]_vars

\* C23: when the generator fails while Summarize builds the summary, the
\* stored summary stays what it was (it never becomes an error text) and no
\* message is pruned: messages are only pruned together with a summary the
\* generator produced.
C23_SummaryFailureKeepsSession ==
    [][\A p \in Procs :
          (pc[p] = "summarize_conversation" /\ pc'[p] = "END")
          => \/ store'[sess[p]].summary \in Summaries
             \/ /\ store'[sess[p]].summary = Get(st[p], "summary", << >>)
                /\ store'[sess[p]].messages = st[p].messages]_vars

\* C24: when the dense or the sparse query of the Chunk Store fails,
\* generate_response raises nothing and returns the retrieval error message
\* of the failure's kind.
C24_StoreFailureBecomesMessage ==
    (rag.phase = "done" /\ rag.failure \in StoreFailures)
    => /\ rag.raised = "none"
       /\ rag.result = DatabaseMessage(rag.failure)

\* C25: when the retrieval of a technical query found nothing, the reply of
\* the turn is a nothing-found response that is not a failure message and
\* not a text of the generator: the generator is not called with the
\* notice as its documentation.
C25_NoResultsReply ==
    \A p \in Procs :
        Get(st[p], "context", << >>) = NoDocuments
        => /\ "llm" \notin Range(trace[p])
           /\ pc[p] = "END" => st[p].response \notin Replies \cup Apologies

\* the nodes that call the store, the embedder or the generator
CallingNodes == {"tool", "llm", "rag_invoke_node", "smalltalk",
                 "summarize_conversation"}

\* C26: a turn whose query is empty or white space only fails fast: no node
\* that queries the store, embeds or calls the generator runs, and the
\* reply is an invalid-input message, not a text of the generator.
C26_BlankQueryFailsFast ==
    \A p \in Procs :
        (pc[p] # "idle" /\ Strip(Get(st[p], "query", QTech)) = << >>)
        => /\ Range(trace[p]) \cap CallingNodes = {}
           /\ pc[p] = "END" => st[p].response \notin Replies \cup Apologies

----------------------------------------------------------------------------
(* A turn from extract_name_node on, on the states Start can leave *)

QNameUpper == <<"i"," ","a","m"," ","A","L">>

QNameIs == <<"m","y"," ","n","a","m","e"," ","i","s"," "," ","B","o">>

QNoName == <<"I"," ","a","m"," ","7">>

QMidWord == <<"M","i","a","m","i"," ","a","m"," ","C","y">>

QTechName == <<"C","i","s","c","o",","," ","I"," ","a","m"," ","A","l">>

\* queries with and without a name
NameQueries == {QName, QNameUpper, QNameIs, QNoName, QMidWord, QTech,
                QTechName}

\* names an earlier turn can have stored
StoredNames == {<< >>, <<"A", "l">>, <<"A", "L">>, <<"B", "o">>}

\* messages an earlier turn can have stored
StoredMessages ==
    {<< >>,
     <<[type |-> "human", content |-> QName, id |-> 1],
       [type |-> "ai", content |-> <<"answer">>, id |-> 2]>>}

\* the channels after Start of a turn with the query
Started(query, messages, summary, user_name) ==
    [query     |-> query,
     messages  |-> messages,
     context   |-> << >>,
     summary   |-> summary,
     response  |-> << >>,
     user_name |-> user_name]

\* a turn stands before extract_name
InitName ==
    /\ vs = NoSearch
    /\ rag = NoContext
    /\ \E query \in NameQueries, messages \in StoredMessages,
          summary \in {<< >>} \cup Summaries, user_name \in StoredNames :
          /\ st = [p \in Procs |->
                     IF p = 1
                     THEN Started(query, messages, summary, user_name)
                     ELSE EmptyChannels]
          /\ store = [s \in Sessions |->
                        Started(query, messages, summary, user_name)]
    /\ pc = [p \in Procs |-> IF p = 1 THEN "extract_name" ELSE "idle"]
    /\ trace = [p \in Procs |-> IF p = 1 THEN <<"start">> ELSE << >>]
    /\ sess = [p \in Procs |-> CHOOSE s \in Sessions : TRUE]
    /\ entry = [p \in Procs |-> IF p = 1 THEN "webhook" ELSE "none"]
    /\ out = [p \in Procs |-> NoReply]
    /\ turns = 1
    /\ errors = 0

NextName ==
    \/ extract_name(1)
    \/ tool(1)
    \/ rag_invoke(1)
    \/ smalltalk(1)
    \/ connector(1)
    \/ get_response(1)

SpecName == InitName /\ [][NextName]_vars

\* (?:i am|my name is)\s+ ends just before position b of the query
NameIntroAt(q, b) ==
    \E w \in {<<"i", " ", "a", "m">>,
               <<"m", "y", " ", "n", "a", "m", "e", " ", "i", "s">>} :
        \E i \in 1..b :
            /\ i + Len(w) < b
            /\ Lower(SubSeq(q, i, i + Len(w) - 1)) = w
            /\ \A k \in (i + Len(w))..(b - 1) : IsSpace(q[k])

\* the run of letters q[b..e] is the first one that follows an introduction
CapturedAt(q, b, e) ==
    /\ NameIntroAt(q, b)
    /\ \A k \in b..e : IsLetter(q[k])
    /\ e = Len(q) \/ ~IsLetter(q[e + 1])
    /\ \A c \in 1..(b - 1) : ~(NameIntroAt(q, c) /\ IsLetter(q[c]))

\* C27: ExtractName sets user_name to the name captured after "i am" or
\* "my name is" when there is one and it differs, ignoring case, from the
\* stored name; otherwise the state is unchanged.  Query, messages, summary,
\* context and response are unchanged either way and the turn goes on to
\* intent routing.
C27_ExtractName ==
    [][\A p \in Procs :
          (pc[p] = "extract_name" /\ pc'[p] # pc[p])
          => LET q   == st[p].query
                 old == Get(st[p], "user_name", << >>)
                 new == {SubSeq(q, b, e) : <<b, e>> \in
                            {x \in (DOMAIN q) \X (DOMAIN q) :
                                /\ x[1] <= x[2]
                                /\ CapturedAt(q, x[1], x[2])
                                /\ Lower(SubSeq(q, x[1], x[2])) # Lower(old)}}
             IN  /\ new # {} => new = {st'[p].user_name}
                 /\ new = {} => st'[p] = st[p]
                 /\ \A k \in {"query", "messages", "summary", "context",
                               "response"} : st'[p][k] = st[p][k]
                 /\ store'[sess[p]] = st'[p]
                 /\ pc'[p] \in {"tool", "smalltalk"}]_vars

\* C27 witness: the query names AL while Al is stored, and the node has left
\* the stored name.
C27_Witness ==
    /\ pc[1] = "smalltalk"
    /\ trace[1] = <<"start", "extract_name">>
    /\ st[1].query = QNameUpper
    /\ st[1].user_name = <<"A", "l">>
    /\ Len(st[1].messages) = 2

\* C27 witness: a name found in the middle of a word replaced the stored one.
C27_WitnessNewName ==
    /\ pc[1] = "smalltalk"
    /\ trace[1] = <<"start", "extract_name">>
    /\ st[1].query = QMidWord
    /\ st[1].user_name = <<"C", "y">>
    /\ store[sess[1]].user_name = <<"C", "y">>

----------------------------------------------------------------------------
(* start_node on the states a turn can load *)

\* the channels an earlier turn of the session can have left
StoredStates ==
    {EmptyChannels} \cup
    {[query     |-> QName,
      messages  |-> messages,
      context   |-> context,
      summary   |-> summary,
      response  |-> response,
      user_name |-> user_name] :
        messages \in StoredMessages \ {<< >>},
        context \in WebContexts,
        summary \in {<< >>} \cup Summaries,
        response \in Replies \cup {ApologySmalltalk},
        user_name \in StoredNames}

\* a webhook turn has loaded the checkpoint and stands before Start
InitStart ==
    /\ vs = NoSearch
    /\ rag = NoContext
    /\ \E query \in Queries, stored \in StoredStates :
          /\ st = [p \in Procs |->
                     IF p = 1
                     THEN ApplyUpdate(stored, WebhookState(query))
                     ELSE EmptyChannels]
          /\ store = [s \in Sessions |->
                        ApplyUpdate(stored, WebhookState(query))]
    /\ pc = [p \in Procs |-> IF p = 1 THEN "start" ELSE "idle"]
    /\ trace = [p \in Procs |-> << >>]
    /\ sess = [p \in Procs |-> CHOOSE s \in Sessions : TRUE]
    /\ entry = [p \in Procs |-> IF p = 1 THEN "webhook" ELSE "none"]
    /\ out = [p \in Procs |-> NoReply]
    /\ turns = 1
    /\ errors = 0

\* the start node of coreservices or the one of the apigateway runs
NextStart ==
    \/ start(1)
    \/ gw_start(1)

SpecStart == InitStart /\ [][NextStart]_vars

\* C28: Start leaves every field that is set in the loaded state (messages,
\* summary, user_name, query) as it is, and sets context and response to
\* the empty string only when they were unset.
C28_StartOnlyDefaults ==
    [][\A p \in Procs :
          (pc[p] = "start" /\ pc'[p] = "extract_name")
          => /\ \A k \in DOMAIN st[p] : st'[p][k] = st[p][k]
             /\ \A k \in {"context", "response"} \ DOMAIN st[p] :
                   st'[p][k] = << >>]_vars

----------------------------------------------------------------------------
(* Claims about routing *)

\* a keyword of the technical vocabulary occurs in the lowercased query
HasTechnicalKeyword(q) ==
    \E w \in technical_keywords :
        \E i \in DOMAIN q :
            /\ i + Len(w) - 1 <= Len(q)
            /\ \A k \in DOMAIN w : LowerChar(q[i + k - 1]) = w[k]

\* C29: the turn takes the Retrieve branch exactly when the lowercased
\* query contains a keyword of the technical vocabulary, and Smalltalk
\* otherwise; a turn on the Smalltalk branch runs no retrieval and its
\* context stays empty.
C29_RoutingByKeyword ==
    [][\A p \in Procs :
          /\ (pc[p] = "extract_name" /\ pc'[p] # pc[p])
             => /\ pc'[p] = "tool" <=> HasTechnicalKeyword(st[p].query)
                /\ pc'[p] = "smalltalk" <=> ~HasTechnicalKeyword(st[p].query)
          /\ "smalltalk" \in Range(trace'[p]) \cup {pc'[p]}
             => /\ "tool" \notin Range(trace'[p])
                /\ Get(st'[p], "context", << >>) = << >>]_vars

\* C29 witness: a query with the keyword in capitals inside a sentence was
\* routed to retrieval.
C29_Witness ==
    /\ pc[1] = "tool"
    /\ trace[1] = <<"start", "extract_name">>
    /\ st[1].query = QTechName

\* C29 witness: a turn without keyword ended on the Smalltalk branch.
C29_WitnessSmalltalk ==
    /\ pc[1] = "END"
    /\ "smalltalk" \in Range(trace[1])
    /\ st[1].query = QMidWord

----------------------------------------------------------------------------
(* One turn of either graph, from the states a session can have been left  *)
(* in.  Request slot 1 runs the graph of coreservices, request slot 2 the   *)
(* graph of the apigateway.                                                 *)

\* a stored conversation of n messages, human and ai in turn
History(n) ==
    [i \in 1..n |->
        [type    |-> IF i % 2 = 1 THEN "human" ELSE "ai",
         content |-> IF i % 2 = 1 THEN QName ELSE <<"answer">>,
         id      |-> i]]

TurnHistories ==
    {History(n) : n \in {0, 2, SummarizeThreshold, MessageLimit,
                         MessageLimit + 2}}

TurnQueries == Queries \cup GwQueries

\* the nodes and edges of create_graph
CoreNode(p) ==
    \/ start(p)
    \/ extract_name(p)
    \/ tool(p)
    \/ rag_invoke(p)
    \/ smalltalk(p)
    \/ connector(p)
    \/ summarize(p)

\* the nodes and edges of the apigateway's graph
GwNode(p) ==
    \/ gw_start(p)
    \/ extract_name(p)
    \/ gw_tool(p)
    \/ gw_llm(p)
    \/ gw_smalltalk(p)
    \/ gw_should_continue(p)
    \/ gw_summarize(p)

\* ainvoke has loaded the checkpoint, merged the input and stands before
\* Start
InitTurn ==
    /\ vs = NoSearch
    /\ rag = NoContext
    /\ \E graph \in Procs, query \in TurnQueries, messages \in TurnHistories,
          summary \in {<< >>} \cup Summaries :
          LET stored == IF messages = << >>
                        THEN EmptyChannels
                        ELSE Started(QName, messages, summary, << >>)
              loaded == ApplyUpdate(stored, WebhookState(query))
          IN  /\ st = [p \in Procs |->
                         IF p = graph THEN loaded ELSE EmptyChannels]
              /\ store = [s \in Sessions |-> loaded]
              /\ pc = [p \in Procs |-> IF p = graph THEN "start" ELSE "idle"]
              /\ entry = [p \in Procs |->
                            IF p = graph THEN "webhook" ELSE "none"]
    /\ trace = [p \in Procs |-> << >>]
    /\ sess = [p \in Procs |-> CHOOSE s \in Sessions : TRUE]
    /\ out = [p \in Procs |-> NoReply]
    /\ turns = 1
    /\ errors = 0

NextTurn ==
    \/ CoreNode(1)
    \/ GwNode(2)
    \/ \E p \in Procs : get_response(p)

SpecTurn == InitTurn /\ [][NextTurn]_vars

\* the graph runner executes the node the turn stands at and moves on: every
\* external call returns, so the node returns
Advance(p) ==
    /\ pc[p] # "idle"
    /\ \E next \in {"extract_name", "tool", "rag_invoke_node", "llm",
                    "smalltalk", "connector_node", "should_continue",
                    "summarize_conversation", "END", "idle"} \ {pc[p]} :
          pc' = [pc EXCEPT ![p] = next]

SpecTurnFair == SpecTurn /\ \A p \in Procs : WF_pc(Advance(p))

----------------------------------------------------------------------------
(* Claims about termination *)

\* messages still missing before should_continue ends the turn by length
Missing(messages) ==
    IF Len(messages) > MessageLimit
    THEN 0
    ELSE MessageLimit + 1 - Len(messages)

Pred(n) == IF n > 0 THEN n - 1 ELSE 0

\* an upper bound of the node executions a turn of create_graph has left
CoreRemaining(p) ==
    CASE pc[p] = "start"                  -> 6
      [] pc[p] = "extract_name"           -> 5
      [] pc[p] = "tool"                   -> 4
      [] pc[p] = "rag_invoke_node"        -> 3
      [] pc[p] = "smalltalk"              -> 3
      [] pc[p] = "connector_node"         -> 2
      [] pc[p] = "summarize_conversation" -> 1
      [] OTHER                            -> 0

\* an upper bound of the node executions a turn of the apigateway's graph has
\* left: every pass of the loop adds a message
GwRemaining(p) ==
    LET missing == Missing(st[p].messages)
    IN  CASE pc[p] = "start"                  -> 5 + 3 * Pred(missing)
          [] pc[p] = "extract_name"           -> 4 + 3 * Pred(missing)
          [] pc[p] = "tool"                   -> 3 + 3 * Pred(missing)
          [] pc[p] = "summarize_conversation" -> 3 + 3 * Pred(missing)
          [] pc[p] = "llm"                    -> 2 + 3 * Pred(missing)
          [] pc[p] = "smalltalk"              -> 2 + 3 * Pred(missing)
          [] pc[p] = "should_continue"        -> 1 + 3 * missing
          [] OTHER                            -> 0

Remaining(p) == IF p = 1 THEN CoreRemaining(p) ELSE GwRemaining(p)

\* a node of the turn in slot p can run
CanRun(p) ==
    pc[p] = "summarize_conversation" /\ p = 1
        => ~add_messages_raises(st[p].messages,
                                PrunedMessages(st[p].messages))

C30_WitnessCore ==
    /\ pc[1] = "END"
    /\ Len(trace[1]) = 6
    /\ trace[1][6] = "summarize_conversation"

----------------------------------------------------------------------------
(* Claims about the stored conversation over the turns of a session *)

MessageCounts ==
    {Len(store[s].messages) : s \in Sessions}
        \cup {Len(st[p].messages) : p \in Procs}

\* C31: in a session that starts empty and whose turns all complete, the
\* number of messages is at most 8 in every state, is even when
\* should_summarize decides, and is 2, 4 or 6 when a turn ends; it is never 7
\* and never more than 20.
C31_MemoryBound ==
    /\ \A n \in MessageCounts :
          n <= SummarizeThreshold + 2 /\ n # 7 /\ ~(n > MessageLimit)
    /\ \A p \in Procs :
          /\ pc[p] = "connector_node" => Len(st[p].messages) % 2 = 0
          /\ pc[p] = "END" =>
                /\ Len(st[p].messages) \in {2, 4, 6}
                /\ Len(store[sess[p]].messages) \in {2, 4, 6}

\* the fourth turn of a session has ended after summarize_conversation cut
\* eight messages down to two
C31_Witness ==
    /\ pc[1] = "END"
    /\ turns >= 4
    /\ trace[1][Len(trace[1])] = "summarize_conversation"
    /\ Len(st[1].messages) = 2

\* the messages end with the user message of the query and the reply
EndsWithExchange(messages, query, reply) ==
    LET n == Len(messages)
    IN  /\ n >= 2
        /\ messages[n - 1].type = "human"
        /\ messages[n - 1].content = query
        /\ messages[n].type = "ai"
        /\ messages[n].content = reply

\* C32: when a turn has reached END, after summarize_conversation or without
\* it, the stored messages end with the user message of this turn's query and
\* the assistant message of this turn's reply, and get_response returns the
\* content of that last assistant message.
C32_ReplyIsLastMessage ==
    [][\A p \in Procs :
          pc[p] = "END" /\ pc'[p] = "idle" =>
              /\ EndsWithExchange(store[sess[p]].messages, st[p].query,
                                  out'[p].response)
              /\ EndsWithExchange(st[p].messages, st[p].query,
                                  out'[p].response)
              /\ out'[p].status = "ok"]_vars

\* get_response has answered a later turn that went through
\* summarize_conversation, and the session holds the exchange of that turn
C32_Witness ==
    /\ pc[1] = "idle"
    /\ out[1].status = "ok"
    /\ turns >= 4
    /\ \E s \in Sessions :
          /\ Len(store[s].messages) = 2
          /\ store[s].summary \in SummaryTexts
          /\ EndsWithExchange(store[s].messages, QTech, out[1].response)

----------------------------------------------------------------------------
(* The webhook handler with the Webex event in flight: entry[p] names the   *)
(* author of the message the event is about until the handler has decided.  *)

MaxHookTurns == 4

\* Webex calls /webexhook for a message a user wrote in the room
webhook_event(p) ==
    /\ pc[p] = "idle"
    /\ entry[p] = "none"
    /\ \E email \in Emails \ {BotEmail} :
          entry' = [entry EXCEPT ![p] = email]
    /\ UNCHANGED <<store, pc, st, trace, sess, out, turns, errors, vs, rag>>

\* api.messages.create(roomId, text=response) has posted the reply: Webex
\* calls /webexhook for that message, whose author is the bot
messages_create_event(p) ==
    /\ pc[p] = "idle"
    /\ entry[p] = "none"
    /\ out[p].status = "ok"
    /\ entry' = [entry EXCEPT ![p] = BotEmail]
    /\ UNCHANGED <<store, pc, st, trace, sess, out, turns, errors, vs, rag>>

\* the handler answers whoever wrote the message
webhook_handle_all(p) ==
    /\ pc[p] = "idle"
    /\ entry[p] \in Emails
    /\ turns < MaxHookTurns
    /\ \E s \in Sessions, q \in Queries :
          BeginTurn(p, s, WebhookState(q), "webhook")

\* the handler has fetched the message: it returns at once when the author is
\* localhelper@webex.bot and runs get_response otherwise
webhook_handle(p) ==
    /\ pc[p] = "idle"
    /\ entry[p] \in Emails
    /\ IF entry[p] = BotEmail
       THEN /\ out' = [out EXCEPT ![p] =
                         [status |-> "ignored", response |-> << >>]]
            /\ entry' = [entry EXCEPT ![p] = "none"]
            /\ UNCHANGED <<store, pc, st, trace, sess, turns, errors, vs,
                           rag>>
       ELSE /\ turns < MaxHookTurns
            /\ \E s \in Sessions, q \in Queries :
                  BeginTurn(p, s, WebhookState(q), "webhook")

NextHook ==
    \/ webhook_event(1)
    \/ messages_create_event(1)
    \/ webhook_handle(1)
    \/ Node(1)

SpecHook == Init /\ [][NextHook]_vars

\* C33: when the message of a webhook event was written by the bot's own
\* address the handler runs no turn and posts nothing: the event is answered
\* with "ignored" and the session, the turn count and the request slot are
\* left as they were, so the event Webex raises for a reply the bot posted
\* never leads to another reply.
C33_OwnMessagesIgnored ==
    [][\A p \in Procs :
          entry[p] = BotEmail /\ entry'[p] # BotEmail =>
              /\ out'[p] = [status |-> "ignored", response |-> << >>]
              /\ pc'[p] = "idle"
              /\ UNCHANGED <<store, st, trace, turns>>]_vars

\* the handler has ignored the event of a reply the bot itself posted in a
\* session that holds that reply
C33_Witness ==
    /\ out[1].status = "ignored"
    /\ entry[1] = "none"
    /\ turns >= 1
    /\ \E s \in Sessions : Len(store[s].messages) >= 2

----------------------------------------------------------------------------
(* Claims about what a node leaves alone *)

\* the channels are the same before and after but for the named ones
SameBut(before, after, changed) ==
    /\ DOMAIN before \ changed = DOMAIN after \ changed
    /\ \A k \in DOMAIN before \ changed : after[k] = before[k]

\* C34: tool_node changes no channel but context, summarize_conversation
\* none but summary and messages, and connector_node none at all, in the
\* running turn and in the stored session: the response and the user name
\* that Respond left are those at END, also when Summarize ran.
C34_NodeFrames ==
    [][\A p \in Procs :
          /\ pc[p] = "tool" /\ pc'[p] # "tool" =>
                /\ SameBut(st[p], st'[p], {"context"})
                /\ SameBut(st[p], store'[sess[p]], {"context"})
          /\ pc[p] = "summarize_conversation" /\ pc'[p] = "END" =>
                /\ SameBut(st[p], st'[p], {"summary", "messages"})
                /\ SameBut(st[p], store'[sess[p]], {"summary", "messages"})
          /\ pc[p] = "connector_node" /\ pc'[p] # "connector_node" =>
                /\ st'[p] = st[p]
                /\ store'[sess[p]] = st[p]]_vars

\* a turn of a named user has ended after summarize_conversation with the
\* reply and the name it had before
C34_Witness ==
    /\ pc[1] = "END"
    /\ trace[1][Len(trace[1])] = "summarize_conversation"
    /\ st[1].response \in Replies
    /\ st[1].user_name # << >>
    /\ Len(st[1].messages) = 2

\* a technical turn has passed tool_node with a context from the web search
C34_WitnessTool ==
    /\ pc[1] = "rag_invoke_node"
    /\ st[1].context = <<"web">>
    /\ st[1].user_name # << >>

----------------------------------------------------------------------------
(* EmbeddingModel.get_instance called from several threads.  vs.via[t] is   *)
(* the module name under which thread t's caller imported the class: each   *)
(* name has a module object of its own, with its own _instance and _lock.   *)

\* VectorSearch.__init__ or ChunkEmbedRank.__init__ calls get_instance
get_instance(t) ==
    /\ vs.at[t] = "idle"
    /\ vs.got[t] = None
    /\ \E m \in EmbeddingModules :
          vs' = [vs EXCEPT !.via[t] = m, !.at[t] = "get_instance"]
    /\ UNCHANGED <<conv, rag>>

\* if cls._instance is None: ... return cls._instance
instance_is_none(t) ==
    /\ vs.at[t] = "get_instance"
    /\ IF vs.instance[vs.via[t]] = None
       THEN vs' = [vs EXCEPT !.at[t] = "with_lock"]
       ELSE vs' = [vs EXCEPT !.at[t] = "returned",
                             !.got[t] = vs.instance[vs.via[t]]]
    /\ UNCHANGED <<conv, rag>>

\* with cls._lock
acquire_class_lock(t) ==
    /\ vs.at[t] = "with_lock"
    /\ vs.class_lock[vs.via[t]] = NoThread
    /\ vs' = [vs EXCEPT !.class_lock[vs.via[t]] = t, !.at[t] = "locked"]
    /\ UNCHANGED <<conv, rag>>

\* if cls._instance is None: cls._instance = cls(); the lock is released and
\* cls._instance returned
construct_instance(t) ==
    /\ vs.at[t] = "locked"
    /\ LET m == vs.via[t]
           made == <<m, vs.constructed[m] + 1>>
       IN  IF vs.instance[m] = None
           THEN vs' = [vs EXCEPT !.instance[m] = made,
                                 !.constructed[m] = vs.constructed[m] + 1,
                                 !.class_lock[m] = NoThread,
                                 !.got[t] = made,
                                 !.at[t] = "returned"]
           ELSE vs' = [vs EXCEPT !.class_lock[m] = NoThread,
                                 !.got[t] = vs.instance[m],
                                 !.at[t] = "returned"]
    /\ UNCHANGED <<conv, rag>>

NextInstance ==
    \E t \in Threads :
        \/ get_instance(t)
        \/ instance_is_none(t)
        \/ acquire_class_lock(t)
        \/ construct_instance(t)

SpecInstance == Init /\ [][NextInstance]_vars

\* C35: however the first calls of get_instance interleave, one model object
\* is constructed in the process and every caller gets that object.
C35_OneInstance ==
    /\ \A m1, m2 \in EmbeddingModules :
          m1 # m2 => vs.constructed[m1] + vs.constructed[m2] <= 1
    /\ \A t1, t2 \in Threads :
          vs.got[t1] # None /\ vs.got[t2] # None => vs.got[t1] = vs.got[t2]

\* callers that imported the class under one name get one object
C35_OnePerImportName ==
    /\ \A m \in EmbeddingModules : vs.constructed[m] <= 1
    /\ \A t1, t2 \in Threads :
          /\ vs.got[t1] # None
          /\ vs.got[t2] # None
          /\ vs.via[t1] = vs.via[t2]
          => vs.got[t1] = vs.got[t2]

----------------------------------------------------------------------------
(* Claims about failed embeddings *)

\* C36: a call of get_embedded_query that raises leaves the embedding cache
\* as it was, so that nothing is cached for a text whose embedding failed,
\* the empty text included.
C36_FailedEmbeddingNotCached ==
    [][vs'.returned = "ValueError" =>
          vs'.embedding_cache = vs.embedding_cache]_vars

----------------------------------------------------------------------------
(* rerank_results applied to its own output.  vs.scorer is the score the    *)
(* cross-encoder gives the pair of the query and a chunk: the same chunk    *)
(* gets the same score in every call.                                       *)

MaxCandidates == 3

\* model.predict(pairs) for the candidates
Predict(scorer, results) ==
    [i \in DOMAIN results |-> scorer[results[i].response_chunk]]

InitRerank ==
    /\ rag = NoContext
    /\ store = [s \in Sessions |-> EmptyChannels]
    /\ pc = [p \in Procs |-> "idle"]
    /\ st = [p \in Procs |-> EmptyChannels]
    /\ trace = [p \in Procs |-> << >>]
    /\ sess = [p \in Procs |-> CHOOSE s \in Sessions : TRUE]
    /\ entry = [p \in Procs |-> "none"]
    /\ out = [p \in Procs |-> NoReply]
    /\ turns = 0
    /\ errors = 0
    /\ \E scorer \in [{d.response_chunk : d \in Docs} -> RerankScores],
          results \in ResultLists(MaxCandidates) :
          vs = [NoSearch EXCEPT !.scorer = scorer,
                                !.phase = "searched",
                                !.candidates = results]

\* rerank_results(query, results) inside hybrid_search
rerank_first ==
    /\ vs.phase = "searched"
    /\ vs' = [vs EXCEPT
                !.phase = "returned",
                !.predict_calls = PredictCalls(vs.candidates),
                !.reranked = rerank_results(vs.candidates,
                                            Predict(vs.scorer, vs.candidates))]
    /\ UNCHANGED <<conv, rag>>

\* generate_response: rerank_results(query, search_results) on the list
\* hybrid_search returned
rerank_again ==
    /\ vs.phase = "returned"
    /\ vs' = [vs EXCEPT
                !.phase = "reranked",
                !.candidates = vs.reranked,
                !.predict_calls = vs.predict_calls + PredictCalls(vs.reranked),
                !.reranked = rerank_results(vs.reranked,
                                            Predict(vs.scorer, vs.reranked))]
    /\ UNCHANGED <<conv, rag>>

NextRerank ==
    \/ rerank_first
    \/ rerank_again

SpecRerank == InitRerank /\ [][NextRerank]_vars

\* C37: with a scorer that gives a chunk the same score in every call,
\* rerank_results applied to a list it returned for the query returns that
\* list: the same candidates in the same order, none dropped.
C37_RerankIdempotent ==
    [][vs.phase = "returned" /\ vs'.phase = "reranked" =>
          vs'.reranked = vs.reranked]_vars

\* the second rerank was given two candidates with equal scores and has
\* returned them
C37_Witness ==
    /\ vs.phase = "reranked"
    /\ vs.predict_calls = 2
    /\ Len(vs.candidates) = 2
    /\ Len(vs.reranked) = 2
    /\ vs.reranked[1].rerank_score = vs.reranked[2].rerank_score
    /\ vs.reranked[1].score > vs.reranked[2].score

----------------------------------------------------------------------------
(* Claims about repeated chunks *)

\* C38: the context text get_full_threads assembles for a thread holds no
\* chunk text twice, whatever the store holds, also when a response chunk is
\* stored in several documents of the thread.
C38_NoChunkTwice ==
    Assembled =>
        \A k \in DOMAIN rag.thread_contexts :
            \A i, j \in DOMAIN rag.thread_contexts[k].chunks :
                i # j => rag.thread_contexts[k].chunks[i]
                            # rag.thread_contexts[k].chunks[j]

----------------------------------------------------------------------------
(* Ingestion: MongoDBConn.save_data_to_mongo_web run twice on the same URL  *)
(* list.  vs.collection holds the documents of the collection in insertion  *)
(* order; vs.ingest is the run in progress: its number, the position in the *)
(* list, the URLs its loop has reached and the URLs each run inserted       *)
(* documents for.                                                           *)

weburl == <<UrlHelp, UrlSupport, UrlForum>>

MaxRuns == 2

\* the numbers of query chunks and response chunks chunk_text can return
\* for the scraped texts of a page
Chunkings == {<<1, 1>>, <<2, 1>>, <<1, 2>>}

\* the errors ChunkAndEmbed(source, url) and its generate_embedding can
\* raise: ValueError (unsupported source, empty page), TypeError, or an error
\* of another type (the model cannot be loaded, the page cannot be fetched,
\* encode fails)
EmbedFailures == {"ValueError", "TypeError", "OtherError"}

\* the documents _insert_chunks builds: one per pair of a query chunk and a
\* response chunk
ChunkDocs(url, chunking) ==
    LET nq == chunking[1]
        nr == chunking[2]
    IN  [k \in 1..(nq * nr) |->
            [thread_url     |-> url,
             query_chunk    |-> ((k - 1) \div nr) + 1,
             response_chunk |-> ((k - 1) % nr) + 1]]

\* mongo_collection.find_one({"thread_url": url})
find_one(collection, url) ==
    \E k \in DOMAIN collection : collection[k].thread_url = url

\* save_data_to_mongo_web(weburl) is called
save_data_to_mongo_web ==
    /\ vs.ingest.state \in {"idle", "returned", "raised"}
    /\ vs.ingest.run < MaxRuns
    /\ vs' = [vs EXCEPT !.ingest.state = "running",
                        !.ingest.run = vs.ingest.run + 1,
                        !.ingest.at = 1,
                        !.ingest.reached = {},
                        !.ingest.inserted = Append(vs.ingest.inserted, {})]
    /\ UNCHANGED <<conv, rag>>

\* one pass of  for url in weburl : the URL is skipped when the collection
\* has a document of it; otherwise it is scraped, chunked, embedded and its
\* documents are inserted.  PyMongoError, ValueError and TypeError end the
\* pass, any other error leaves the method
process_url ==
    /\ vs.ingest.state = "running"
    /\ vs.ingest.at <= Len(weburl)
    /\ LET url  == weburl[vs.ingest.at]
           run  == vs.ingest.run
           next == [vs EXCEPT !.ingest.at = vs.ingest.at + 1,
                              !.ingest.reached = vs.ingest.reached \cup {url}]
       IN  \/ \* find_one raises PyMongoError
              vs' = next
           \/ /\ find_one(vs.collection, url)
              /\ vs' = next
           \/ /\ ~find_one(vs.collection, url)
              /\ \/ \E failure \in EmbedFailures :
                       IF failure = "OtherError"
                       THEN vs' = [next EXCEPT !.ingest.state = "raised",
                                               !.ingest.at = vs.ingest.at]
                       ELSE vs' = next
                 \/ \* insert_many raises PyMongoError
                    vs' = next
                 \/ \E chunking \in Chunkings :
                       vs' = [next EXCEPT
                                !.collection =
                                    vs.collection \o ChunkDocs(url, chunking),
                                !.ingest.inserted[run] =
                                    vs.ingest.inserted[run] \cup {url}]
    /\ UNCHANGED <<conv, rag>>

\* the loop is over
save_data_returns ==
    /\ vs.ingest.state = "running"
    /\ vs.ingest.at > Len(weburl)
    /\ vs' = [vs EXCEPT !.ingest.state = "returned"]
    /\ UNCHANGED <<conv, rag>>

NextIngest ==
    \/ save_data_to_mongo_web
    \/ process_url
    \/ save_data_returns

SpecIngest == Init /\ [][NextIngest]_vars

\* C39: the second run of save_data_to_mongo_web on the same URL list
\* inserts no document for a URL the first run inserted documents for, and
\* when a run is over, every URL of the list has been processed, whatever
\* failed for the URLs before it.
C39_IdempotentIngestion ==
    /\ vs.ingest.run >= 2 =>
          vs.ingest.inserted[1] \cap vs.ingest.inserted[2] = {}
    /\ vs.ingest.state \in {"returned", "raised"} =>
          vs.ingest.reached = Range(weburl)

\* the second run leaves the documents of the URLs the first run inserted
C39_SecondRunSkips ==
    [][vs.ingest.run = 2 =>
          \A url \in vs.ingest.inserted[1] :
              SelectSeq(vs'.collection, LAMBDA d : d.thread_url = url)
                  = SelectSeq(vs.collection, LAMBDA d : d.thread_url = url)]_vars

====
